---- MODULE Spec2Model ----
(***************************************************************************)
(* Model of the rusty-processing pipeline: the top-level driver `process`  *)
(* (processing/src/lib.rs), the processor dispatcher                       *)
(* (processing/src/processing/processor.rs), the format processors that    *)
(* emit outputs, the output handling loop with its worker pool, and the    *)
(* archive builder (services/src/archive_builder.rs).                      *)
(***************************************************************************)
EXTENDS Integers, Sequences, FiniteSets, TLC

(***************************************************************************)
(* Bounds of the model.                                                    *)
(***************************************************************************)
\* Capacity of the output channel (lib.rs:74 uses 100; scaled down).
OutputCapacity == 1
\* Capacity of the archive-entry channel (lib.rs:75 uses 100; scaled down).
ArchiveCapacity == 1
\* Threads of the output handling pool (lib.rs:33 uses 1000; scaled down).
PoolThreads == 2
\* Largest number of executor threads of the caller's async runtime.
MaxExecutors == 2

(***************************************************************************)
(* The inputs: a finite universe of files.  A file has a detected MIME     *)
(* type, the MD5 of its bytes, the MD5 of its Message-ID ("" when it has   *)
(* none), flags telling which external operations succeed on it, and the   *)
(* members a container processor finds in it, in order.                    *)
(***************************************************************************)
Member(kind, file, name, mime) ==
    [kind |-> kind, file |-> file, name |-> name, mime |-> mime]

Leaf(mime, md5) ==
    [mime |-> mime, md5 |-> md5, msgid |-> "", readable |-> TRUE,
     parses |-> TRUE, textOk |-> TRUE, metaOk |-> TRUE, pdfOk |-> TRUE,
     members |-> <<>>]

File(f) ==
    CASE f = "box" ->
           [Leaf("application/mbox", "hbox") EXCEPT !.members =
              << Member("msg", "m1", "", ""),
                 Member("msg_err", "m1", "", ""),
                 Member("msg", "m2", "", "") >>]
      [] f = "m1" ->
           [Leaf("message/rfc822", "h1") EXCEPT !.msgid = "id1", !.members =
              << Member("att", "abs", "/abs.dat", "text/plain") >>]
      [] f = "m2" ->
           [Leaf("message/rfc822", "h2") EXCEPT !.msgid = "id1",
              !.textOk = FALSE, !.pdfOk = FALSE, !.members =
              << Member("att", "bad", "b.zip", "application/zip") >>]
      [] f = "cut" ->
           [Leaf("application/mbox", "hc") EXCEPT !.members =
              << Member("msg", "m3", "", ""),
                 Member("msg", "m3", "", ""),
                 Member("cut", "m3", "", "") >>]
      [] f = "m3" ->
           [Leaf("message/rfc822", "h3") EXCEPT !.msgid = "id3", !.members =
              << Member("att_err", "t1", "", ""),
                 Member("att", "t1", "n.txt", "text/plain") >>]
      [] f = "inbox" ->
           [Leaf("application/mbox", "hi") EXCEPT !.members =
              << Member("msg", "m1", "", ""),
                 Member("msg", "m2", "", "") >>]
      [] f = "zipA" ->
           [Leaf("application/zip", "hz") EXCEPT !.members =
              << Member("dir", "t1", "d", ""),
                 Member("file", "t1", "x.txt", ""),
                 Member("bad", "t1", "y.txt", ""),
                 Member("file", "t1", "x.txt", "") >>]
      [] f = "t1" -> Leaf("text/plain", "ht")
      [] f = "abs" -> [Leaf("text/plain", "ha") EXCEPT !.metaOk = FALSE]
      [] OTHER -> [Leaf("application/zip", "hb") EXCEPT !.parses = FALSE]

\* The files `process` may be called on.
Roots == {"box", "cut", "m2", "zipA", "t1"}

\* The kinds sets `process` may be called with.
TypeChoices == { {}, {"Metadata"}, {"Embedded"}, {"Text", "Embedded"} }

AllTypes == {"Text", "Metadata", "Pdf", "Embedded"}

\* Faults of the archive file system: none, ArchiveBuilder::new fails,
\* or an append fails.
ArchiveFaults == {"none", "new", "append"}

(***************************************************************************)
(* Pure functions of the code.                                             *)
(***************************************************************************)
\* dedupe_checksum: the MD5 of the Message-ID for a message that has one,
\* the MD5 of the bytes otherwise.
Fingerprint(f, mimetype) ==
    IF mimetype = "message/rfc822" /\ File(f).msgid # ""
    THEN File(f).msgid
    ELSE File(f).md5

text_processor(mimetype) ==
    mimetype \notin {"application/zip", "application/mbox"}

metadata_processor(mimetype) == TRUE

pdf_processor(mimetype) == mimetype = "message/rfc822"

embedded_processor(mimetype) ==
    mimetype \in {"application/zip", "application/mbox", "message/rfc822"}

\* The processors run for (mimetype, types), named by their kind.
determine_processors(mimetype, types) ==
    { k \in AllTypes :
        /\ k \in types
        /\ CASE k = "Text" -> text_processor(mimetype)
             [] k = "Metadata" -> metadata_processor(mimetype)
             [] k = "Pdf" -> pdf_processor(mimetype)
             [] OTHER -> embedded_processor(mimetype) }

\* Path::is_absolute of a file name: the names of the universe that start
\* with '/'.
IsAbsolute(name) == name \in {"/abs.dat"}

\* PathBuf::push: an absolute component replaces the path.
PathPush(path, component) ==
    IF IsAbsolute(component) THEN <<component>> ELSE Append(path, component)

RECURSIVE PushAll(_, _)
PushAll(path, components) ==
    IF components = <<>> THEN path
    ELSE PushAll(PathPush(path, Head(components)), Tail(components))

\* ArchiveBuilder::archive_entry_path: the chain's components, then the name.
archive_entry_path(embedded_dupe_chain, name) ==
    PathPush(PushAll(<<>>, embedded_dupe_chain), name)

\* Path::parent of a path with at least one component.
PathParent(path) == SubSeq(path, 1, Len(path) - 1)

(***************************************************************************)
(* Outputs.  `path` is the identity of the temp file behind the output:    *)
(* the path of the input it was made from, extended by the processor and   *)
(* the position that made it.  `file` names the content of that temp file  *)
(* for embedded files.                                                     *)
(***************************************************************************)
TempPath(input, proc, idx) == Append(input, [p |-> proc, i |-> idx])

NoOutput ==
    [kind |-> "None", state |-> <<>>, name |-> "", path |-> <<>>,
     file |-> "", mimetype |-> "", types |-> {}, checksum |-> ""]

ErrOutput == [NoOutput EXCEPT !.kind = "Err"]

\* ProcessOutput::processed
processed(ctx, name, path, mimetype, checksum) ==
    [kind |-> "Processed", state |-> ctx.chain, name |-> name, path |-> path,
     file |-> "", mimetype |-> mimetype, types |-> ctx.types,
     checksum |-> checksum]

\* ProcessOutput::embedded (the clone of the sink is counted by the action
\* that sends the output)
embedded(ctx, name, path, file, mimetype, checksum) ==
    [kind |-> "Embedded", state |-> ctx.chain, name |-> name, path |-> path,
     file |-> file, mimetype |-> mimetype, types |-> ctx.types,
     checksum |-> checksum]

\* ArchiveEntry::new; `out` records the output the entry was made from.
ArchiveEntry(name, path, id_chain, out) ==
    [name |-> name, path |-> path, id_chain |-> id_chain, out |-> out]

(***************************************************************************)
(* State.                                                                  *)
(***************************************************************************)
VARIABLES
    root,         \* the file `process` is called on
    types,        \* the kinds `process` is called with
    recurse,      \* the recurse flag
    executors,    \* executor threads of the runtime that runs the spawned tasks
    fault,        \* the archive file system fault of this run
    pc,           \* where `process` is: which task it awaits, or how it returned
    disp,         \* the dispatcher invocations: 0 is the root, w is worker w's
    outputs,      \* the output channel
    outSenders,   \* live senders of the output channel
    outRxOpen,    \* the receiver of the output channel is alive
    loopPc,       \* where handle_outputs is
    poolQueue,    \* jobs queued in the worker pool
    workers,      \* the pool's threads
    entries,      \* the archive-entry channel
    arcSenders,   \* live senders of the archive-entry channel
    arcRxOpen,    \* the receiver of the archive-entry channel is alive
    panics,       \* workers that panicked on a failed send
    builderPc,    \* where build_archive is
    zipper,       \* the entries written to the ZIP writer, in order
    size,         \* ArchiveBuilder.size
    current_path, \* ArchiveBuilder.current_path, <<>> for None
    archive,      \* the file build() returned
    log,          \* history: what was emitted, received, dispatched, sent
    dedupe,       \* two computations of dedupe_checksum on one content
    command,      \* one call of stream_command
    stream,       \* one byte stream: its reading future and its consumer
    message       \* one call of MessageTransformer::transform

vars ==
    << root, types, recurse, executors, fault, pc, disp, outputs, outSenders,
       outRxOpen, loopPc, poolQueue, workers, entries, arcSenders, arcRxOpen,
       panics, builderPc, zipper, size, current_path, archive, log, dedupe,
       command, stream, message >>

WorkerIds == 1..PoolThreads

Invocations == {0} \cup WorkerIds

NoTasks == [k \in AllTypes |-> -1]

IdleDispatch ==
    [status |-> "idle", input |-> <<>>, file |-> "", mimetype |-> "",
     types |-> {}, chain |-> <<>>, tasks |-> NoTasks]

\* ProcessContextBuilder::new(..).id_chain(..).build() and the input path
\* handed to Processor::process with it.
ProcessContext(input, file, mimetype, kinds, id_chain) ==
    [status |-> "start", input |-> input, file |-> file,
     mimetype |-> mimetype, types |-> kinds, chain |-> id_chain,
     tasks |-> NoTasks]

NoEntry == ArchiveEntry("", <<>>, <<>>, NoOutput)

IdleWorker == [pc |-> "idle", out |-> NoOutput, entry |-> NoEntry]

NoArchive == [kind |-> "none", entries |-> <<>>, raw |-> <<>>]

\* The history of a run: the Ok outputs and the number of Err items put on
\* the output channel, the Ok outputs the loop received and the number of
\* Err items it logged, the dispatcher invocations, the Embedded outputs
\* whose recursive invocation returned an error, the entries the workers
\* sent, the sub-processors that were dropped unfinished because another
\* one of their invocation failed.
NoLog ==
    [emitted |-> {}, emittedErrs |-> 0, received |-> {}, errsLogged |-> 0,
     dispatched |-> {}, recFailed |-> {}, sent |-> {}, cancelled |-> {}]

\* No fingerprint is being computed, no command is running.
NoDedupe == [mime |-> "", content |-> <<>>, run |-> <<>>]

NoCommand == [pc |-> "none"]

NoStream == [fut |-> "none"]

NoMessage == [pc |-> "none"]

\* The state `process` sets up before its tasks take a step: the channels,
\* the root context, the three spawned tasks.
Spawned ==
    /\ recurse \in BOOLEAN
    /\ executors \in 1..MaxExecutors
    /\ fault \in ArchiveFaults
    /\ pc = "processing"
    /\ disp = [i \in Invocations |->
                 IF i = 0
                 THEN ProcessContext(<<>>, root, File(root).mime, types, <<>>)
                 ELSE IdleDispatch]
    /\ outputs = <<>>
    /\ outSenders = 1
    /\ outRxOpen = TRUE
    /\ loopPc = "recv"
    /\ poolQueue = <<>>
    /\ workers = [w \in WorkerIds |-> IdleWorker]
    /\ entries = <<>>
    /\ arcSenders = 1
    /\ arcRxOpen = TRUE
    /\ panics = 0
    /\ builderPc = "new"
    /\ zipper = <<>>
    /\ size = 0
    /\ current_path = <<>>
    /\ archive = NoArchive
    /\ log = NoLog
    /\ dedupe = NoDedupe
    /\ command = NoCommand
    /\ stream = NoStream
    /\ message = NoMessage

Init ==
    /\ root \in Roots
    /\ types \in TypeChoices
    /\ Spawned

\* worker_pool.join() blocks the executor thread that polls handle_outputs.
BlockedExecutors == IF loopPc = "joining" THEN 1 ELSE 0

\* A future of the caller's runtime is polled only by a thread that is not
\* blocked.
ExecutorFree == executors > BlockedExecutors

\* The root dispatcher is a task of the caller's runtime; a recursive one is
\* driven by its worker thread (runtime().block_on).
Runnable(i) == i # 0 \/ ExecutorFree

(***************************************************************************)
(* The format processors: what sub-processor k of a dispatcher invocation  *)
(* d does next, at position idx.                                           *)
(***************************************************************************)
Emit(item) == [act |-> "emit", item |-> item]
Skip == [act |-> "skip", item |-> NoOutput]
Fail == [act |-> "fail", item |-> NoOutput]
Done == [act |-> "done", item |-> NoOutput]

\* The checksum Processor::process computes for its input.
Checksum(d) == Fingerprint(d.file, d.mimetype)

\* DefaultTextProcessor::process: a failure of the analysis service is
\* returned.
TextStep(d) ==
    IF File(d.file).textOk
    THEN Emit(processed(d, "extracted.txt", TempPath(d.input, "Text", 0),
                        "text/plain", Checksum(d)))
    ELSE Fail

\* DefaultMetadataProcessor::process: a failure is sent as an Err item.
MetadataStep(d) ==
    Emit(IF File(d.file).metaOk
         THEN processed(d, "metadata.json", TempPath(d.input, "Metadata", 0),
                        "embedded/json", Checksum(d))
         ELSE ErrOutput)

\* Rfc822PdfProcessor::process: a parse failure is returned, a rendering
\* failure is sent as an Err item.
PdfStep(d) ==
    IF ~File(d.file).parses THEN Fail
    ELSE Emit(IF File(d.file).pdfOk
              THEN processed(d, "rendered.pdf", TempPath(d.input, "Pdf", 0),
                             "embedded/pdf", Checksum(d))
              ELSE ErrOutput)

\* A variant of ZipStep that returns the failure of a member (`?`).
ZipStepPropagates(d, idx) ==
    LET members == File(d.file).members IN
    IF ~File(d.file).parses THEN Fail
    ELSE IF idx >= Len(members) THEN Done
    ELSE LET m == members[idx + 1]
             mimetype == File(m.file).mime
         IN CASE m.kind = "file" ->
                   Emit(embedded(d, m.name, TempPath(d.input, "Embedded", idx),
                                 m.file, mimetype,
                                 Fingerprint(m.file, mimetype)))
              [] m.kind = "dir" -> Skip
              [] OTHER -> Fail

\* ZipEmbeddedProcessor::process and next_archive_entry.
ZipStep(d, idx) ==
    LET members == File(d.file).members IN
    IF ~File(d.file).parses THEN Fail
    ELSE IF idx >= Len(members) THEN Done
    ELSE LET m == members[idx + 1]
             mimetype == File(m.file).mime
         IN IF m.kind = "file"
            THEN Emit(embedded(d, m.name, TempPath(d.input, "Embedded", idx),
                               m.file, mimetype, Fingerprint(m.file, mimetype)))
            ELSE Skip

\* A variant of MboxStep that gives every message the checksum of the mbox
\* (the checksum argument of `process`) instead of its own.
MboxStepParentChecksum(d, idx) ==
    LET members == File(d.file).members IN
    IF ~File(d.file).readable THEN Fail
    ELSE IF idx >= Len(members) THEN Done
    ELSE LET m == members[idx + 1] IN
         CASE m.kind = "msg" ->
                Emit(embedded(d, "mbox-message.eml",
                              TempPath(d.input, "Embedded", idx), m.file,
                              "message/rfc822", Checksum(d)))
           [] m.kind = "msg_err" -> Emit(ErrOutput)
           [] OTHER -> Fail

\* MboxEmbeddedProcessor::process and process_message.
MboxStep(d, idx) ==
    LET members == File(d.file).members IN
    IF ~File(d.file).readable THEN Fail
    ELSE IF idx >= Len(members) THEN Done
    ELSE LET m == members[idx + 1] IN
         CASE m.kind = "msg" ->
                Emit(embedded(d, "mbox-message.eml",
                              TempPath(d.input, "Embedded", idx), m.file,
                              "message/rfc822",
                              Fingerprint(m.file, "message/rfc822")))
           [] m.kind = "msg_err" -> Emit(ErrOutput)
           [] OTHER -> Fail

\* Rfc822EmbeddedProcessor::process.
Rfc822Step(d, idx) ==
    LET members == File(d.file).members IN
    IF ~File(d.file).parses THEN Fail
    ELSE IF idx >= Len(members) THEN Done
    ELSE LET m == members[idx + 1]
             name == IF m.name = "" THEN "message-attachment.dat" ELSE m.name
         IN IF m.kind = "att"
            THEN Emit(embedded(d, name, TempPath(d.input, "Embedded", idx),
                               m.file, m.mime, Fingerprint(m.file, m.mime)))
            ELSE Fail

TaskOutcome(d, k) ==
    CASE k = "Text" -> TextStep(d)
      [] k = "Metadata" -> MetadataStep(d)
      [] k = "Pdf" -> PdfStep(d)
      [] OTHER ->
           CASE d.mimetype = "application/zip" -> ZipStep(d, d.tasks[k])
             [] d.mimetype = "application/mbox" -> MboxStep(d, d.tasks[k])
             [] OTHER -> Rfc822Step(d, d.tasks[k])

\* The position of sub-processor k after a step that did not fail: the
\* next member of a container, or -1 when it has returned.
Advance(d, k) ==
    IF k = "Embedded" /\ d.tasks[k] + 1 < Len(File(d.file).members)
    THEN d.tasks[k] + 1
    ELSE -1

(***************************************************************************)
(* Processor::process, for the root (i = 0) and for worker i's recursion.  *)
(***************************************************************************)
\* The sub-processors try_join_all runs for a context.
InitialTasks(d) ==
    [k \in AllTypes |->
        IF k \in determine_processors(d.mimetype, d.types) THEN 0 ELSE -1]

\* try_join_all returns Ok once every sub-processor has returned.
Joined(tasks) == \A k \in AllTypes : tasks[k] = -1

\* The record of one call of Processor::process with context ctx: the n-th
\* on that input.
Invocation(ctx) ==
    [input |-> ctx.input, mimetype |-> ctx.mimetype, types |-> ctx.types,
     chain |-> ctx.chain,
     n |-> 1 + Cardinality({d \in log.dispatched : d.input = ctx.input})]

\* The checksum of the input is computed and the sub-processors are chosen;
\* without any, the invocation returns Ok at once and its context drops.
Begin(i, accepted, tasks) ==
    /\ disp[i].status = "start"
    /\ Runnable(i)
    /\ IF ~accepted
       THEN /\ disp' = [disp EXCEPT ![i].status = "err"]
            /\ outSenders' = outSenders - 1
       ELSE IF Joined(tasks)
       THEN /\ disp' = [disp EXCEPT ![i].status = "ok"]
            /\ outSenders' = outSenders - 1
       ELSE /\ disp' = [disp EXCEPT ![i].status = "running",
                                    ![i].tasks = tasks]
            /\ UNCHANGED outSenders
    /\ log' = [log EXCEPT !.dispatched = @ \cup {Invocation(disp[i])}]
    /\ UNCHANGED << root, types, recurse, executors, fault, pc, outputs,
                outRxOpen, loopPc, poolQueue, workers, entries, arcSenders,
                arcRxOpen, panics, builderPc, zipper, size, current_path,
                archive, dedupe, command, stream, message >>

\* Processor::process up to try_join_all: the checksum fails on an input
\* that cannot be read.
DispatchStart(i) ==
    Begin(i, File(disp[i].file).readable, InitialTasks(disp[i]))

\* One step of one sub-processor under try_join_all: add_output waits for
\* room in the channel and fails when the receiver is gone; the first
\* failure ends the invocation and drops the other sub-processors; the
\* invocation returns Ok with the last sub-processor.  The context drops
\* when the invocation returns.
Step(i, k, o) ==
    /\ disp[i].status = "running"
    /\ disp[i].tasks[k] >= 0
    /\ Runnable(i)
    /\ LET d == disp[i]
           failed == o.act = "fail" \/ (o.act = "emit" /\ ~outRxOpen)
           tasks == [d.tasks EXCEPT ![k] = Advance(d, k)]
           sent == IF o.act = "emit" /\ o.item.kind = "Embedded" /\ ~failed
                   THEN 1 ELSE 0
           dropped == IF failed \/ Joined(tasks) THEN 1 ELSE 0
       IN /\ (o.act = "emit" /\ outRxOpen) => Len(outputs) < OutputCapacity
          /\ disp' = [disp EXCEPT ![i] =
                        IF failed
                        THEN [d EXCEPT !.status = "err", !.tasks = NoTasks]
                        ELSE IF Joined(tasks)
                        THEN [d EXCEPT !.status = "ok", !.tasks = tasks]
                        ELSE [d EXCEPT !.tasks = tasks]]
          /\ outputs' = IF o.act = "emit" /\ ~failed
                        THEN Append(outputs, o.item)
                        ELSE outputs
          /\ outSenders' = outSenders + sent - dropped
          /\ log' = IF o.act = "fail"
                    THEN [log EXCEPT !.cancelled = @ \cup
                            { [input |-> d.input, kind |-> j] :
                                j \in { t \in AllTypes \ {k} :
                                          d.tasks[t] >= 0 } }]
                    ELSE IF o.act # "emit" \/ failed THEN log
                    ELSE IF o.item.kind = "Err"
                    THEN [log EXCEPT !.emittedErrs = @ + 1]
                    ELSE [log EXCEPT !.emitted = @ \cup {o.item}]
    /\ UNCHANGED << root, types, recurse, executors, fault, pc, outRxOpen,
                loopPc, poolQueue, workers, entries, arcSenders, arcRxOpen,
                panics, builderPc, zipper, size, current_path, archive,
                dedupe, command, stream, message >>

TaskStep(i, k) == Step(i, k, TaskOutcome(disp[i], k))

(***************************************************************************)
(* handle_outputs: the output loop and its worker pool.                    *)
(***************************************************************************)
\* A variant of LoopRecv that propagates an Err item (`output?`): the loop
\* returns at once, without logging, and drops what the channel holds.
LoopRecvPropagates ==
    /\ loopPc = "recv"
    /\ ExecutorFree
    /\ outputs # <<>>
    /\ IF Head(outputs).kind = "Err"
       THEN /\ outputs' = <<>>
            /\ loopPc' = "done"
            /\ outRxOpen' = FALSE
            /\ arcSenders' = arcSenders - 1
            /\ UNCHANGED << poolQueue, log >>
       ELSE /\ outputs' = Tail(outputs)
            /\ log' = [log EXCEPT !.received = @ \cup {Head(outputs)}]
            /\ poolQueue' = Append(poolQueue, Head(outputs))
            /\ arcSenders' = arcSenders + 1
            /\ UNCHANGED << loopPc, outRxOpen >>
    /\ UNCHANGED << root, types, recurse, executors, fault, pc, disp, outSenders,
                workers, entries, arcRxOpen, panics, builderPc, zipper, size,
                current_path, archive, dedupe, command, stream, message >>

\* One turn of `while let Some(output) = outputs.recv().await`: an Err item
\* is logged, an Ok output is queued on the pool with a clone of the
\* archive-entry sink.
LoopRecv ==
    /\ loopPc = "recv"
    /\ ExecutorFree
    /\ outputs # <<>>
    /\ outputs' = Tail(outputs)
    /\ IF Head(outputs).kind = "Err"
       THEN /\ log' = [log EXCEPT !.errsLogged = @ + 1]
            /\ UNCHANGED << poolQueue, arcSenders >>
       ELSE /\ log' = [log EXCEPT !.received = @ \cup {Head(outputs)}]
            /\ poolQueue' = Append(poolQueue, Head(outputs))
            /\ arcSenders' = arcSenders + 1
    /\ UNCHANGED << root, types, recurse, executors, fault, pc, disp, outSenders,
                outRxOpen, loopPc, workers, entries, arcRxOpen, panics,
                builderPc, zipper, size, current_path, archive, dedupe,
                command, stream, message >>

\* A variant of LoopClosed that leaves the loop as soon as the channel is
\* empty (`try_recv`), whether or not a sender is left.
LoopClosedOnEmpty ==
    /\ loopPc = "recv"
    /\ ExecutorFree
    /\ outputs = <<>>
    /\ loopPc' = "joining"
    /\ UNCHANGED << root, types, recurse, executors, fault, pc, disp, outputs,
                outSenders, outRxOpen, poolQueue, workers, entries,
                arcSenders, arcRxOpen, panics, builderPc, zipper, size,
                current_path, archive, log, dedupe, command, stream, message >>

\* recv() returns None: the channel is empty and every sender is dropped.
\* The loop enters worker_pool.join(), a blocking call.
LoopClosed ==
    /\ loopPc = "recv"
    /\ ExecutorFree
    /\ outputs = <<>>
    /\ outSenders = 0
    /\ loopPc' = "joining"
    /\ UNCHANGED << root, types, recurse, executors, fault, pc, disp, outputs,
                outSenders, outRxOpen, poolQueue, workers, entries,
                arcSenders, arcRxOpen, panics, builderPc, zipper, size,
                current_path, archive, log, dedupe, command, stream, message >>

\* join() returns once no job is queued or active; handle_outputs returns
\* and drops the receiver of the outputs and its archive-entry sink.
LoopJoined ==
    /\ loopPc = "joining"
    /\ poolQueue = <<>>
    /\ \A w \in WorkerIds : workers[w].pc = "idle"
    /\ loopPc' = "done"
    /\ outRxOpen' = FALSE
    /\ arcSenders' = arcSenders - 1
    /\ UNCHANGED << root, types, recurse, executors, fault, pc, disp, outputs,
                outSenders, poolQueue, workers, entries, arcRxOpen, panics,
                builderPc, zipper, size, current_path, archive, log, dedupe,
                command, stream, message >>

\* A variant of child_id_chain that forgets the fingerprint: the child would
\* inherit the chain of its parent.
child_id_chain_flat(output) == output.state

\* The chain of an embedded file: `id_chain.push(data.checksum)`.
child_id_chain(output) == Append(output.state, output.checksum)

\* handle_process_output, and the entry handle_process_output_recursively
\* returns.
handle_process_output(output) ==
    IF output.kind = "Processed"
    THEN ArchiveEntry(output.name, output.path, output.state, output)
    ELSE ArchiveEntry(output.name, output.path, child_id_chain(output), output)

\* The context handle_process_output_recursively builds for an Embedded
\* output.
child_context(output) ==
    ProcessContext(output.path, output.file, output.mimetype, output.types,
                   child_id_chain(output))

\* A variant of Recurses that ignores the recurse flag.
RecursesAlways(output) == output.kind = "Embedded"

\* handle_output_asynchronously decides whether an output is re-processed.
Recurses(output) == recurse /\ output.kind = "Embedded"

\* A pool thread takes the next job.  An Embedded output is re-processed
\* when recurse is set: the child context holds a clone of the output's
\* sink.  Otherwise the entry is made at once and the output's sink drops.
WorkerTake(w) ==
    /\ workers[w].pc = "idle"
    /\ poolQueue # <<>>
    /\ poolQueue' = Tail(poolQueue)
    /\ LET output == Head(poolQueue) IN
       IF Recurses(output)
       THEN /\ workers' = [workers EXCEPT ![w] =
                  [pc |-> "dispatch", out |-> output, entry |-> NoEntry]]
            /\ disp' = [disp EXCEPT ![w] = child_context(output)]
            /\ outSenders' = outSenders + 1
       ELSE /\ workers' = [workers EXCEPT ![w] =
                  [pc |-> "send", out |-> output,
                   entry |-> handle_process_output(output)]]
            /\ outSenders' = IF output.kind = "Embedded"
                             THEN outSenders - 1 ELSE outSenders
            /\ UNCHANGED disp
    /\ UNCHANGED << root, types, recurse, executors, fault, pc, outputs,
                outRxOpen, loopPc, entries, arcSenders, arcRxOpen, panics,
                builderPc, zipper, size, current_path, archive, log, dedupe,
                command, stream, message >>

\* The recursive dispatcher call has returned: its error is only logged,
\* the entry of the embedded file is made and the output's sink drops.
WorkerDispatched(w) ==
    /\ workers[w].pc = "dispatch"
    /\ disp[w].status \in {"ok", "err"}
    /\ workers' = [workers EXCEPT ![w].pc = "send",
                     ![w].entry = handle_process_output(workers[w].out)]
    /\ disp' = [disp EXCEPT ![w] = IdleDispatch]
    /\ outSenders' = outSenders - 1
    /\ log' = IF disp[w].status = "err"
              THEN [log EXCEPT !.recFailed = @ \cup {workers[w].out}]
              ELSE log
    /\ UNCHANGED << root, types, recurse, executors, fault, pc, outputs,
                outRxOpen, loopPc, poolQueue, entries, arcSenders, arcRxOpen,
                panics, builderPc, zipper, size, current_path, archive,
                dedupe, command, stream, message >>

\* A variant of WorkerSend that does not wait for room (`try_send`): the
\* entry is dropped when the channel is full.
WorkerSendDropsWhenFull(w) ==
    /\ workers[w].pc = "send"
    /\ IF arcRxOpen /\ Len(entries) < ArchiveCapacity
       THEN /\ entries' = Append(entries, workers[w].entry)
            /\ log' = [log EXCEPT !.sent = @ \cup {workers[w].entry}]
            /\ UNCHANGED panics
       ELSE /\ panics' = panics + 1
            /\ UNCHANGED << entries, log >>
    /\ workers' = [workers EXCEPT ![w] = IdleWorker]
    /\ arcSenders' = arcSenders - 1
    /\ UNCHANGED << root, types, recurse, executors, fault, pc, disp, outputs,
                outSenders, outRxOpen, loopPc, poolQueue, arcRxOpen,
                builderPc, zipper, size, current_path, archive, dedupe,
                command, stream, message >>

\* archive_entry_sink.send(archive_entry).await.unwrap(): waits for room,
\* panics when the receiver is gone; the sink clone drops either way.
WorkerSend(w) ==
    /\ workers[w].pc = "send"
    /\ arcRxOpen => Len(entries) < ArchiveCapacity
    /\ IF arcRxOpen
       THEN /\ entries' = Append(entries, workers[w].entry)
            /\ log' = [log EXCEPT !.sent = @ \cup {workers[w].entry}]
            /\ UNCHANGED panics
       ELSE /\ panics' = panics + 1
            /\ UNCHANGED << entries, log >>
    /\ workers' = [workers EXCEPT ![w] = IdleWorker]
    /\ arcSenders' = arcSenders - 1
    /\ UNCHANGED << root, types, recurse, executors, fault, pc, disp, outputs,
                outSenders, outRxOpen, loopPc, poolQueue, arcRxOpen,
                builderPc, zipper, size, current_path, archive, dedupe,
                command, stream, message >>

(***************************************************************************)
(* build_archive and the ArchiveBuilder.                                   *)
(***************************************************************************)
\* What ArchiveBuilder::append writes for an entry: the directory of its
\* path (add_directory), then the file (start_file, write_file).
append(entry) ==
    LET path == archive_entry_path(entry.id_chain, entry.name) IN
    << [kind |-> "dir", path |-> PathParent(path), entry |-> entry],
       [kind |-> "file", path |-> path, entry |-> entry] >>

\* What ArchiveBuilder::build returns: the file of the only entry when
\* exactly one was appended, the finished ZIP otherwise.
build(zipped, count, current) ==
    IF count = 1 /\ current # <<>>
    THEN [kind |-> "raw", entries |-> <<>>, raw |-> current[1]]
    ELSE [kind |-> "zip", entries |-> zipped, raw |-> <<>>]

\* ArchiveBuilder::new()?: on failure build_archive returns and drops the
\* receiver with whatever the channel holds.
BuilderNew ==
    /\ builderPc = "new"
    /\ ExecutorFree
    /\ IF fault = "new"
       THEN builderPc' = "err" /\ arcRxOpen' = FALSE /\ entries' = <<>>
       ELSE builderPc' = "recv" /\ UNCHANGED << arcRxOpen, entries >>
    /\ UNCHANGED << root, types, recurse, executors, fault, pc, disp, outputs,
                outSenders, outRxOpen, loopPc, poolQueue, workers,
                arcSenders, panics, zipper, size, current_path, archive, log,
                dedupe, command, stream, message >>

\* A variant of BuilderAppend that writes the entry before those already
\* written.
BuilderAppendFront ==
    /\ builderPc = "recv"
    /\ ExecutorFree
    /\ entries # <<>>
    /\ zipper' = append(Head(entries)) \o zipper
    /\ IF fault = "append"
       THEN /\ builderPc' = "err"
            /\ arcRxOpen' = FALSE
            /\ entries' = <<>>
            /\ UNCHANGED << size, current_path >>
       ELSE /\ entries' = Tail(entries)
            /\ size' = size + 1
            /\ current_path' = << Head(entries).path >>
            /\ UNCHANGED << builderPc, arcRxOpen >>
    /\ UNCHANGED << root, types, recurse, executors, fault, pc, disp, outputs,
                outSenders, outRxOpen, loopPc, poolQueue, workers,
                arcSenders, panics, archive, log, dedupe, command, stream, message >>

\* One turn of `while let Some(archive_path) = entries.recv().await`:
\* append(entry)?, which fails when the entry's file cannot be streamed.
BuilderAppend ==
    /\ builderPc = "recv"
    /\ ExecutorFree
    /\ entries # <<>>
    /\ zipper' = zipper \o append(Head(entries))
    /\ IF fault = "append"
       THEN /\ builderPc' = "err"
            /\ arcRxOpen' = FALSE
            /\ entries' = <<>>
            /\ UNCHANGED << size, current_path >>
       ELSE /\ entries' = Tail(entries)
            /\ size' = size + 1
            /\ current_path' = << Head(entries).path >>
            /\ UNCHANGED << builderPc, arcRxOpen >>
    /\ UNCHANGED << root, types, recurse, executors, fault, pc, disp, outputs,
                outSenders, outRxOpen, loopPc, poolQueue, workers,
                arcSenders, panics, archive, log, dedupe, command, stream, message >>

\* A variant of BuilderBuild that finalizes as soon as the channel is
\* empty, without waiting for the sinks to drop.
BuilderBuildEarly ==
    /\ builderPc = "recv"
    /\ ExecutorFree
    /\ entries = <<>>
    /\ archive' = build(zipper, size, current_path)
    /\ builderPc' = "ok"
    /\ arcRxOpen' = FALSE
    /\ UNCHANGED << root, types, recurse, executors, fault, pc, disp, outputs,
                outSenders, outRxOpen, loopPc, poolQueue, workers, entries,
                arcSenders, panics, zipper, size, current_path, log, dedupe,
                command, stream, message >>

\* recv() returns None: the channel is empty and every sink is dropped.
\* archive_builder.build() ends the task.
BuilderBuild ==
    /\ builderPc = "recv"
    /\ ExecutorFree
    /\ entries = <<>>
    /\ arcSenders = 0
    /\ archive' = build(zipper, size, current_path)
    /\ builderPc' = "ok"
    /\ arcRxOpen' = FALSE
    /\ UNCHANGED << root, types, recurse, executors, fault, pc, disp, outputs,
                outSenders, outRxOpen, loopPc, poolQueue, workers, entries,
                arcSenders, panics, zipper, size, current_path, log, dedupe,
                command, stream, message >>

(***************************************************************************)
(* process: awaits the three tasks in turn.                                *)
(***************************************************************************)
\* processing.await?.map_err(..)?
AwaitProcessing ==
    /\ pc = "processing"
    /\ ExecutorFree
    /\ disp[0].status \in {"ok", "err"}
    /\ pc' = IF disp[0].status = "err" THEN "err" ELSE "output_handling"
    /\ UNCHANGED << root, types, recurse, executors, fault, disp, outputs,
                outSenders, outRxOpen, loopPc, poolQueue, workers, entries,
                arcSenders, arcRxOpen, panics, builderPc, zipper, size,
                current_path, archive, log, dedupe, command, stream, message >>

\* output_handling.await??
AwaitOutputHandling ==
    /\ pc = "output_handling"
    /\ ExecutorFree
    /\ loopPc = "done"
    /\ pc' = "archive"
    /\ UNCHANGED << root, types, recurse, executors, fault, disp, outputs,
                outSenders, outRxOpen, loopPc, poolQueue, workers, entries,
                arcSenders, arcRxOpen, panics, builderPc, zipper, size,
                current_path, archive, log, dedupe, command, stream, message >>

\* let file = archive.await??; Ok(file)
AwaitArchive ==
    /\ pc = "archive"
    /\ ExecutorFree
    /\ builderPc \in {"ok", "err"}
    /\ pc' = IF builderPc = "ok" THEN "ok" ELSE "err"
    /\ UNCHANGED << root, types, recurse, executors, fault, disp, outputs,
                outSenders, outRxOpen, loopPc, poolQueue, workers, entries,
                arcSenders, arcRxOpen, panics, builderPc, zipper, size,
                current_path, archive, log, dedupe, command, stream, message >>

(***************************************************************************)
(* The temporal worker's process_rusty_stream: the same three tasks, with  *)
(* the stream processors, which are chosen by MIME type alone, and its own *)
(* handler of the outputs.                                                 *)
(***************************************************************************)
\* The kinds every context of the temporal worker is built with.
PROCESS_TYPES == {"Text", "Metadata", "Pdf"}

\* The dispatcher the stream processors are registered with looks the
\* processor up by ctx.mimetype and fails with UnsupportedMimeType when
\* there is none.
stream_processor(mimetype) ==
    mimetype \in {"application/zip", "application/mbox", "message/rfc822"}

\* ZipProcessor and MboxProcessor walk their members; Rfc822Processor joins
\* the text, metadata and PDF of the kinds asked for with the attachments.
StreamTasks(d) ==
    [k \in AllTypes |->
        IF k = "Embedded" \/ (d.mimetype = "message/rfc822" /\ k \in d.types)
        THEN 0 ELSE -1]

\* Rfc822Processor::process_text, process_metadata, process_pdf: the result
\* of the extraction goes to add_output, a failure as an Err item.
StreamProcessed(d, k) ==
    CASE k = "Text" ->
           IF File(d.file).textOk
           THEN processed(d, "extracted.txt", TempPath(d.input, k, 0),
                          "text/plain", Checksum(d))
           ELSE ErrOutput
      [] k = "Metadata" ->
           IF File(d.file).metaOk
           THEN processed(d, "metadata.json", TempPath(d.input, k, 0),
                          "application/json", Checksum(d))
           ELSE ErrOutput
      [] OTHER ->
           IF File(d.file).pdfOk
           THEN processed(d, "rendered.pdf", TempPath(d.input, k, 0),
                          "application/pdf", Checksum(d))
           ELSE ErrOutput

\* What stream processor step k does next.  The walks of ZipProcessor,
\* MboxProcessor and process_attachments are those of their successors.
StreamOutcome(d, k) ==
    CASE d.mimetype = "application/zip" -> ZipStep(d, d.tasks[k])
      [] d.mimetype = "application/mbox" -> MboxStep(d, d.tasks[k])
      [] OTHER ->
           IF ~File(d.file).parses THEN Fail
           ELSE IF k = "Embedded" THEN Rfc822Step(d, d.tasks[k])
           ELSE Emit(StreamProcessed(d, k))

StreamDispatchStart(i) ==
    Begin(i, stream_processor(disp[i].mimetype), StreamTasks(disp[i]))

StreamTaskStep(i, k) == Step(i, k, StreamOutcome(disp[i], k))

\* The context the temporal worker's handle_process_output_recursively
\* builds for an Embedded output.
temporal_child_context(output) ==
    ProcessContext(output.path, output.file, output.mimetype, PROCESS_TYPES,
                   child_id_chain(output))

\* A pool thread of the temporal worker takes the next job.  With recurse an
\* Embedded output is re-processed; `File::open(&data.path).await?` returns
\* the error of a file that cannot be opened, which is printed: no entry is
\* made.
TemporalWorkerTake(w) ==
    /\ workers[w].pc = "idle"
    /\ poolQueue # <<>>
    /\ poolQueue' = Tail(poolQueue)
    /\ LET output == Head(poolQueue) IN
       IF Recurses(output) /\ File(output.file).readable
       THEN /\ workers' = [workers EXCEPT ![w] =
                  [pc |-> "dispatch", out |-> output, entry |-> NoEntry]]
            /\ disp' = [disp EXCEPT ![w] = temporal_child_context(output)]
            /\ outSenders' = outSenders + 1
            /\ UNCHANGED << arcSenders, log >>
       ELSE IF Recurses(output)
       THEN /\ outSenders' = outSenders - 1
            /\ arcSenders' = arcSenders - 1
            /\ log' = [log EXCEPT !.recFailed = @ \cup {output}]
            /\ UNCHANGED << workers, disp >>
       ELSE /\ workers' = [workers EXCEPT ![w] =
                  [pc |-> "send", out |-> output,
                   entry |-> handle_process_output(output)]]
            /\ outSenders' = IF output.kind = "Embedded"
                             THEN outSenders - 1 ELSE outSenders
            /\ UNCHANGED << disp, arcSenders, log >>
    /\ UNCHANGED << root, types, recurse, executors, fault, pc, outputs,
                outRxOpen, loopPc, entries, arcRxOpen, panics, builderPc,
                zipper, size, current_path, archive, dedupe, command, stream, message >>

\* `processor().process(ctx, emb_stream).await?` has returned: on Ok the
\* entry of the embedded file is made; an error is returned to
\* handle_output_asynchronously, which prints it and sends nothing.
TemporalWorkerDispatched(w) ==
    /\ workers[w].pc = "dispatch"
    /\ disp[w].status \in {"ok", "err"}
    /\ IF disp[w].status = "ok"
       THEN /\ workers' = [workers EXCEPT ![w].pc = "send",
                  ![w].entry = handle_process_output(workers[w].out)]
            /\ UNCHANGED << arcSenders, log >>
       ELSE /\ workers' = [workers EXCEPT ![w] = IdleWorker]
            /\ arcSenders' = arcSenders - 1
            /\ log' = [log EXCEPT !.recFailed = @ \cup {workers[w].out}]
    /\ disp' = [disp EXCEPT ![w] = IdleDispatch]
    /\ outSenders' = outSenders - 1
    /\ UNCHANGED << root, types, recurse, executors, fault, pc, outputs,
                outRxOpen, loopPc, poolQueue, entries, arcRxOpen, panics,
                builderPc, zipper, size, current_path, archive, dedupe,
                command, stream, message >>

\* The files process_rusty_stream may be called on.
TemporalRoots == {"m1", "m2", "zipA", "t1"}

\* process_rusty_stream is called on a file with PROCESS_TYPES.
InitTemporal ==
    /\ root \in TemporalRoots
    /\ types = PROCESS_TYPES
    /\ Spawned

NextTemporal ==
    \/ \E i \in Invocations : StreamDispatchStart(i)
    \/ \E i \in Invocations, k \in AllTypes : StreamTaskStep(i, k)
    \/ LoopRecv
    \/ LoopClosed
    \/ LoopJoined
    \/ \E w \in WorkerIds : TemporalWorkerTake(w)
    \/ \E w \in WorkerIds : TemporalWorkerDispatched(w)
    \/ \E w \in WorkerIds : WorkerSend(w)
    \/ BuilderNew
    \/ BuilderAppend
    \/ BuilderBuild
    \/ AwaitProcessing
    \/ AwaitOutputHandling
    \/ AwaitArchive

SpecTemporal == InitTemporal /\ [][NextTemporal]_vars

(***************************************************************************)
(* The behaviours of `process`.                                            *)
(***************************************************************************)
Next ==
    \/ \E i \in Invocations : DispatchStart(i)
    \/ \E i \in Invocations, k \in AllTypes : TaskStep(i, k)
    \/ LoopRecv
    \/ LoopClosed
    \/ LoopJoined
    \/ \E w \in WorkerIds : WorkerTake(w)
    \/ \E w \in WorkerIds : WorkerDispatched(w)
    \/ \E w \in WorkerIds : WorkerSend(w)
    \/ BuilderNew
    \/ BuilderAppend
    \/ BuilderBuild
    \/ AwaitProcessing
    \/ AwaitOutputHandling
    \/ AwaitArchive

Spec == Init /\ [][Next]_vars

\* Fair scheduling: the threads do not all halt while one of them has a
\* step to take.
FairSpec == Init /\ [][Next]_vars /\ WF_vars(Next)

(***************************************************************************)
(* dedupe_checksum, outside of a run of `process`.                         *)
(***************************************************************************)
\* The variables of `process`.
pipeline ==
    << root, types, recurse, executors, fault, pc, disp, outputs, outSenders,
       outRxOpen, loopPc, poolQueue, workers, entries, arcSenders, arcRxOpen,
       panics, builderPc, zipper, size, current_path, archive, log >>

\* `process` has not been called.
NoPipeline ==
    /\ root = "t1"
    /\ types = {}
    /\ recurse = FALSE
    /\ executors = 1
    /\ fault = "none"
    /\ pc = "idle"
    /\ disp = [i \in Invocations |-> IdleDispatch]
    /\ outputs = <<>>
    /\ outSenders = 0
    /\ outRxOpen = FALSE
    /\ loopPc = "idle"
    /\ poolQueue = <<>>
    /\ workers = [w \in WorkerIds |-> IdleWorker]
    /\ entries = <<>>
    /\ arcSenders = 0
    /\ arcRxOpen = FALSE
    /\ panics = 0
    /\ builderPc = "idle"
    /\ zipper = <<>>
    /\ size = 0
    /\ current_path = <<>>
    /\ archive = NoArchive
    /\ log = NoLog

\* Length of the read buffer of dedupe_md5 (MB bytes in the code).
BufLen == 2

\* Longest content.
MaxContent == 3

\* The byte the buffer is filled with when it is made: `[0; MB as usize]`.
ZeroByte == 0

\* The byte that stands for a `Message-ID:` header; the byte after it is
\* the id.
IdMark == 3

\* The bytes of a content.
Bytes == {1, 2, IdMark}

Contents == UNION { [1..n -> Bytes] : n \in 0..MaxContent }

\* A reader over memory returns as much as the buffer takes; any other
\* reader may return less on a read.
Readers == {"cursor", "stream"}

\* The MD5 digest, in hex: a value that stands for the bytes hashed.
Md5(bytes) == [md5 |-> bytes]

\* MessageParser::parse and msg.message_id(): the id of a message that has
\* a Message-ID header, <<>> for none.
message_id(content) ==
    IF Len(content) >= 2 /\ content[1] = IdMark THEN << content[2] >> ELSE <<>>

Min(a, b) == IF a < b THEN a ELSE b

\* content.read(buf): the first n bytes of the buffer are overwritten, the
\* rest keeps what it held.
ReadInto(buf, src, n) ==
    [j \in 1..BufLen |-> IF j <= n THEN src[j] ELSE buf[j]]

\* One computation: its reader, where it is, what is left to read, the
\* buffer, what the hasher has consumed, the checksum.
NewRun(reader) ==
    [reader |-> reader, pc |-> "start", src |-> <<>>,
     buf |-> [j \in 1..BufLen |-> ZeroByte], fed |-> <<>>,
     checksum |-> Md5(<<>>)]

Runs == {1, 2}

InitDedupe ==
    /\ NoPipeline
    /\ command = NoCommand
    /\ stream = NoStream
    /\ message = NoMessage
    /\ \E mime \in {"message/rfc822", "text/plain"}, content \in Contents,
          r1, r2 \in Readers :
          dedupe = [mime |-> mime, content |-> content,
                    run |-> << NewRun(r1), NewRun(r2) >>]

\* dedupe_checksum chooses by MIME type.  dedupe_message reads the content
\* to its end, parses it and hands a Cursor over the Message-ID, or over
\* the whole content when there is none, to dedupe_md5; any other content
\* goes to dedupe_md5 with its reader.
DedupeBegin(c) ==
    /\ dedupe.run[c].pc = "start"
    /\ LET id == message_id(dedupe.content) IN
       dedupe' =
         IF dedupe.mime = "message/rfc822"
         THEN [dedupe EXCEPT !.run[c].pc = "reading",
                             !.run[c].reader = "cursor",
                             !.run[c].src = IF id # <<>> THEN id
                                            ELSE dedupe.content]
         ELSE [dedupe EXCEPT !.run[c].pc = "reading",
                             !.run[c].src = dedupe.content]
    /\ UNCHANGED << pipeline, command, stream, message >>

\* One turn of `while content.read(buf.deref_mut()).await? > 0`: n bytes
\* are read and `ctx.consume(buf.deref())` feeds the whole buffer to the
\* hasher.
DedupeRead(c, n) ==
    /\ dedupe.run[c].pc = "reading"
    /\ dedupe.run[c].src # <<>>
    /\ n <= Min(BufLen, Len(dedupe.run[c].src))
    /\ dedupe.run[c].reader = "cursor" =>
          n = Min(BufLen, Len(dedupe.run[c].src))
    /\ LET r == dedupe.run[c]
           buf == ReadInto(r.buf, r.src, n)
       IN dedupe' = [dedupe EXCEPT
                       !.run[c].buf = buf,
                       !.run[c].fed = r.fed \o buf,
                       !.run[c].src = SubSeq(r.src, n + 1, Len(r.src))]
    /\ UNCHANGED << pipeline, command, stream, message >>

\* read returns 0: `format!("{:x}", ctx.compute())`.
DedupeEnd(c) ==
    /\ dedupe.run[c].pc = "reading"
    /\ dedupe.run[c].src = <<>>
    /\ dedupe' = [dedupe EXCEPT !.run[c].pc = "done",
                                !.run[c].checksum = Md5(dedupe.run[c].fed)]
    /\ UNCHANGED << pipeline, command, stream, message >>

NextDedupe ==
    \/ \E c \in Runs : DedupeBegin(c)
    \/ \E c \in Runs, n \in 1..BufLen : DedupeRead(c, n)
    \/ \E c \in Runs : DedupeEnd(c)

SpecDedupe == InitDedupe /\ [][NextDedupe]_vars

(***************************************************************************)
(* stream_command and the HTML-to-PDF rendering that calls it, outside of  *)
(* a run of `process`.                                                     *)
(***************************************************************************)
\* Longest content of the input, of the child's stdout and of its stderr.
MaxStream == 2

\* The bytes the child writes to its stderr; input and stdout are runs of
\* one byte.
StreamBytes == {1, 2}

Streams == UNION { [1..n -> StreamBytes] : n \in 0..MaxStream }

Runs1 == { [j \in 1..n |-> 1] : n \in 0..MaxStream }

\* The exit codes of the child: success, 1, another failure.
ExitCodes == {0, 1, 2}

\* `ExitStatus::success`.
success(code) == code = 0

NoResult == [tag |-> "None", status |-> 0, err |-> ""]

NotRendered == [status |-> "none", pdf |-> <<>>]

\* A call of stream_command: what the environment will do (spawnOk, waitOk,
\* code, stdin closed by the child, output broken, what the child writes),
\* the three pumps with their buffers, the caller's sinks, the result.
NewCommand(input, hasInput, spawnOk, waitOk, code, closed, broken, childOut, childErr) ==
    [pc |-> "called", spawnOk |-> spawnOk, waitOk |-> waitOk, code |-> code,
     hasInput |-> hasInput, stdinClosed |-> closed,
     outBroken |-> broken, childErr |-> childErr,
     input |-> input, stdin |-> <<>>,
     stdout |-> childOut, output |-> <<>>,
     stderr |-> childErr, error |-> <<>>, errReads |-> <<>>,
     wbuf |-> [j \in 1..BufLen |-> ZeroByte],
     rbuf |-> [j \in 1..BufLen |-> ZeroByte],
     ebuf |-> [j \in 1..BufLen |-> ZeroByte],
     writing |-> "idle", reading |-> "idle", erroring |-> "idle",
     result |-> NoResult, rendered |-> NotRendered]

InitCommand ==
    /\ NoPipeline
    /\ dedupe = NoDedupe
    /\ stream = NoStream
    /\ message = NoMessage
    /\ \E input \in Runs1, hasInput, spawnOk, waitOk, stdinClosed,
          outBroken \in BOOLEAN, code \in ExitCodes, childOut \in Runs1,
          childErr \in Streams :
          command = NewCommand(input, hasInput, spawnOk, waitOk, code,
                               stdinClosed, outBroken, childOut, childErr)

\* `Command::new(..).spawn().map_err(CommandError::pre_exit)?`, then the
\* three transfers are made and `join!` starts them.
CommandSpawn ==
    /\ command.pc = "called"
    /\ command' =
         IF command.spawnOk
         THEN [command EXCEPT !.pc = "running", !.writing = "run",
                              !.reading = "run", !.erroring = "run"]
         ELSE [command EXCEPT !.pc = "returned",
                              !.result = [tag |-> "PreExit", status |-> 0,
                                          err |-> "NotFound"]]
    /\ UNCHANGED << pipeline, dedupe, stream, message >>

\* transfer(input, stdin), one turn: a read of n bytes from the input,
\* then `writer.write(buf.deref())` of the whole buffer, of which the pipe
\* takes k bytes; a child that has closed its stdin makes the write fail.
PumpStdin(n, k) ==
    /\ command.pc = "running"
    /\ command.writing = "run"
    /\ command.hasInput
    /\ command.input # <<>>
    /\ n = Min(BufLen, Len(command.input))
    /\ LET buf == ReadInto(command.wbuf, command.input, n)
           rest == SubSeq(command.input, n + 1, Len(command.input))
       IN command' =
            IF command.stdinClosed
            THEN [command EXCEPT !.wbuf = buf, !.input = rest,
                                 !.writing = "BrokenPipe"]
            ELSE [command EXCEPT !.wbuf = buf, !.input = rest,
                                 !.stdin = command.stdin \o SubSeq(buf, 1, k)]
    /\ UNCHANGED << pipeline, dedupe, stream, message >>

\* transfer(input, stdin) returns: there is no input, or its read
\* returned 0.
PumpStdinEnd ==
    /\ command.pc = "running"
    /\ command.writing = "run"
    /\ ~command.hasInput \/ command.input = <<>>
    /\ command' = [command EXCEPT !.writing = "ok"]
    /\ UNCHANGED << pipeline, dedupe, stream, message >>

\* transfer(stdout, output), one turn: the read returns n bytes and the
\* whole buffer is written to the caller's output, which may fail.
PumpStdout(n) ==
    /\ command.pc = "running"
    /\ command.reading = "run"
    /\ command.stdout # <<>>
    /\ n <= Min(BufLen, Len(command.stdout))
    /\ LET buf == ReadInto(command.rbuf, command.stdout, n)
           rest == SubSeq(command.stdout, n + 1, Len(command.stdout))
       IN command' =
            IF command.outBroken
            THEN [command EXCEPT !.rbuf = buf, !.stdout = rest,
                                 !.reading = "WriteFailed"]
            ELSE [command EXCEPT !.rbuf = buf, !.stdout = rest,
                                 !.output = command.output \o buf]
    /\ UNCHANGED << pipeline, dedupe, stream, message >>

PumpStdoutEnd ==
    /\ command.pc = "running"
    /\ command.reading = "run"
    /\ command.stdout = <<>>
    /\ command' = [command EXCEPT !.reading = "ok"]
    /\ UNCHANGED << pipeline, dedupe, stream, message >>

\* transfer(stderr, error), one turn: the error sink of every caller is a
\* Vec<u8>, which takes the whole buffer.
PumpStderr(n) ==
    /\ command.pc = "running"
    /\ command.erroring = "run"
    /\ command.stderr # <<>>
    /\ n <= Min(BufLen, Len(command.stderr))
    /\ LET buf == ReadInto(command.ebuf, command.stderr, n)
       IN command' =
            [command EXCEPT !.ebuf = buf,
                            !.stderr = SubSeq(command.stderr, n + 1,
                                              Len(command.stderr)),
                            !.error = command.error \o buf,
                            !.errReads = Append(command.errReads, n)]
    /\ UNCHANGED << pipeline, dedupe, stream, message >>

PumpStderrEnd ==
    /\ command.pc = "running"
    /\ command.erroring = "run"
    /\ command.stderr = <<>>
    /\ command' = [command EXCEPT !.erroring = "ok"]
    /\ UNCHANGED << pipeline, dedupe, stream, message >>

\* A variant of PumpsSettled: `try_join!`, which returns at the first
\* failure of a pump.
PumpsSettledTryJoin(c) ==
    \/ {c.writing, c.reading, c.erroring} = {"ok"}
    \/ \E r \in {c.writing, c.reading, c.erroring} : r \notin {"run", "ok"}

\* `join!(writing, reading, erroring)` has returned: each pump has ended,
\* with success or with an error.
PumpsSettled(c) ==
    "run" \notin {c.writing, c.reading, c.erroring}

\* A variant of command_result that looks at the exit status first.
command_result_status_first(c) ==
    IF ~c.waitOk THEN [tag |-> "PreExit", status |-> 0, err |-> "WaitFailed"]
    ELSE IF ~success(c.code)
    THEN [tag |-> "PostExit", status |-> c.code, err |-> "NonZero"]
    ELSE IF c.writing # "ok"
    THEN [tag |-> "PostExit", status |-> c.code, err |-> c.writing]
    ELSE IF c.reading # "ok"
    THEN [tag |-> "PostExit", status |-> c.code, err |-> c.reading]
    ELSE IF c.erroring # "ok"
    THEN [tag |-> "PostExit", status |-> c.code, err |-> c.erroring]
    ELSE [tag |-> "Ok", status |-> c.code, err |-> ""]

\* What stream_command returns once the pumps have ended:
\* `proc.wait().await.map_err(CommandError::pre_exit)?`, then
\* `writing_res.and(reading_res).and(erroring_res)` mapped to post_exit,
\* then the exit status.
command_result(c) ==
    IF ~c.waitOk THEN [tag |-> "PreExit", status |-> 0, err |-> "WaitFailed"]
    ELSE IF c.writing # "ok"
    THEN [tag |-> "PostExit", status |-> c.code, err |-> c.writing]
    ELSE IF c.reading # "ok"
    THEN [tag |-> "PostExit", status |-> c.code, err |-> c.reading]
    ELSE IF c.erroring # "ok"
    THEN [tag |-> "PostExit", status |-> c.code, err |-> c.erroring]
    ELSE IF success(c.code)
    THEN [tag |-> "Ok", status |-> c.code, err |-> ""]
    ELSE [tag |-> "PostExit", status |-> c.code, err |-> "NonZero"]

CommandWait ==
    /\ command.pc = "running"
    /\ PumpsSettled(command)
    /\ command' = [command EXCEPT !.pc = "returned",
                                  !.result = command_result(command)]
    /\ UNCHANGED << pipeline, dedupe, stream, message >>

\* HtmlToPdf::run: `stream_command(..).await?`, so any error of the command
\* is returned; otherwise the exit status of the result.
html_to_pdf_run(result) ==
    IF result.tag = "Ok"
    THEN [tag |-> "Ok", exit_status |-> result.status]
    ELSE [tag |-> "Err", exit_status |-> result.status]

\* render_html_to_pdf: `html_to_pdf().run(..).await?`, then
\* `!status.success() && status.code().is_some_and(|code| code != 1)`.
render_html_to_pdf(result) ==
    LET out == html_to_pdf_run(result) IN
    IF out.tag = "Err" THEN "err"
    ELSE IF ~success(out.exit_status) /\ out.exit_status # 1 THEN "err"
    ELSE "ok"

\* render_pdf and Rfc822PdfProcessor::process: when the rendering returned
\* Ok the PDF is written to the output file and sent as the Processed
\* output "rendered.pdf"; an error is sent as an Err item.
Render ==
    /\ command.pc = "returned"
    /\ LET status == render_html_to_pdf(command.result) IN
       command' = [command EXCEPT
                     !.pc = "rendered",
                     !.rendered = [status |-> status,
                                   pdf |-> IF status = "ok"
                                           THEN command.output ELSE <<>>]]
    /\ UNCHANGED << pipeline, dedupe, stream, message >>

NextCommand ==
    \/ CommandSpawn
    \/ \E n, k \in 1..BufLen : PumpStdin(n, k)
    \/ PumpStdinEnd
    \/ \E n \in 1..BufLen : PumpStdout(n)
    \/ PumpStdoutEnd
    \/ \E n \in 1..BufLen : PumpStderr(n)
    \/ PumpStderrEnd
    \/ CommandWait
    \/ Render

SpecCommand == InitCommand /\ [][NextCommand]_vars

(***************************************************************************)
(* An embedded processor called on its own, as the tests of the embedded   *)
(* processors call it: a context built by ProcessContextBuilder with any   *)
(* kinds, the processor spawned, and a loop that receives the outputs.     *)
(***************************************************************************)
\* The files the embedded processors are called on.
DirectRoots == {"inbox", "box", "cut", "zipA", "m1", "m3"}

InitDirect ==
    /\ root \in DirectRoots
    /\ types \in TypeChoices
    /\ recurse = FALSE
    /\ executors = 1
    /\ fault = "none"
    /\ pc = "idle"
    /\ disp = [i \in Invocations |->
                 IF i = 0
                 THEN [ProcessContext(<<>>, root, File(root).mime, types, <<>>)
                         EXCEPT !.status = "running",
                                !.tasks = [NoTasks EXCEPT !["Embedded"] = 0]]
                 ELSE IdleDispatch]
    /\ outputs = <<>>
    /\ outSenders = 1
    /\ outRxOpen = TRUE
    /\ loopPc = "idle"
    /\ poolQueue = <<>>
    /\ workers = [w \in WorkerIds |-> IdleWorker]
    /\ entries = <<>>
    /\ arcSenders = 0
    /\ arcRxOpen = FALSE
    /\ panics = 0
    /\ builderPc = "idle"
    /\ zipper = <<>>
    /\ size = 0
    /\ current_path = <<>>
    /\ archive = NoArchive
    /\ log = NoLog
    /\ dedupe = NoDedupe
    /\ command = NoCommand
    /\ stream = NoStream
    /\ message = NoMessage

\* The senders held by the Embedded outputs of a sequence of outputs.
RECURSIVE SendersIn(_)
SendersIn(outs) ==
    IF outs = <<>> THEN 0
    ELSE (IF Head(outs).kind = "Embedded" THEN 1 ELSE 0) + SendersIn(Tail(outs))

\* One turn of `while let Some(output) = output_rx.recv().await` with
\* `match output?`: an output is kept without its sender; an Err item ends
\* the test, which drops the receiver and what the channel holds.
TestRecv ==
    /\ outRxOpen
    /\ outputs # <<>>
    /\ IF Head(outputs).kind = "Err"
       THEN /\ outputs' = <<>>
            /\ outRxOpen' = FALSE
            /\ outSenders' = outSenders - SendersIn(outputs)
            /\ UNCHANGED log
       ELSE /\ outputs' = Tail(outputs)
            /\ outSenders' = outSenders - SendersIn(<< Head(outputs) >>)
            /\ log' = [log EXCEPT !.received = @ \cup {Head(outputs)}]
            /\ UNCHANGED outRxOpen
    /\ UNCHANGED << root, types, recurse, executors, fault, pc, disp, loopPc,
                poolQueue, workers, entries, arcSenders, arcRxOpen, panics,
                builderPc, zipper, size, current_path, archive, dedupe,
                command, stream, message >>

\* recv() returns None: the processor has returned and the channel is
\* empty.
TestClosed ==
    /\ outRxOpen
    /\ outputs = <<>>
    /\ outSenders = 0
    /\ outRxOpen' = FALSE
    /\ UNCHANGED << root, types, recurse, executors, fault, pc, disp, outputs,
                outSenders, loopPc, poolQueue, workers, entries, arcSenders,
                arcRxOpen, panics, builderPc, zipper, size, current_path,
                archive, log, dedupe, command, stream, message >>

NextDirect ==
    \/ TaskStep(0, "Embedded")
    \/ TestRecv
    \/ TestClosed

SpecDirect == InitDirect /\ [][NextDirect]_vars

(***************************************************************************)
(* The streaming library: read_to_stream / async_read_to_stream, whose     *)
(* reading future turns a reader into a channel of chunks, and the         *)
(* consumers of the stream: a loop that collects it, and stream_to_read.   *)
(***************************************************************************)
\* Capacity of the channel of chunks (streaming/src/lib.rs:33 uses 100).
StreamCapacity == 1

\* `const THRESHOLD: usize = MB as usize`: the length of the read buffer.
THRESHOLD == BufLen

\* The consumers of a stream.
Consumers == {"collect", "stream_to_read", "stream_to_string"}

\* UTF-8 over the bytes of the contents: 1 is a character of one byte, 2
\* the first byte of a character of two bytes and 3 its continuation byte.
LeadByte == 2

ContinuationByte == 3

\* The character of the two bytes LeadByte, ContinuationByte.
TwoByteChar == 23

\* char::REPLACEMENT_CHARACTER, U+FFFD.
REPLACEMENT_CHARACTER == 65533

\* `String::from_utf8_lossy`: the characters of the bytes, each byte that
\* is not part of a well-formed character replaced by U+FFFD (a first byte
\* without its continuation, a continuation byte without a first byte).
RECURSIVE from_utf8_lossy(_)
from_utf8_lossy(bytes) ==
    IF bytes = <<>> THEN <<>>
    ELSE IF Len(bytes) >= 2 /\ bytes[1] = LeadByte
            /\ bytes[2] = ContinuationByte
    THEN << TwoByteChar >> \o from_utf8_lossy(SubSeq(bytes, 3, Len(bytes)))
    ELSE IF bytes[1] \in {LeadByte, ContinuationByte}
    THEN << REPLACEMENT_CHARACTER >> \o from_utf8_lossy(Tail(bytes))
    ELSE << bytes[1] >> \o from_utf8_lossy(Tail(bytes))

\* A variant of Chunk: the whole buffer, as `transfer` writes it.
ChunkWholeBuffer(buf, n) == buf

\* `Bytes::copy_from_slice(&buf[..bytes_read])`.
Chunk(buf, n) == SubSeq(buf, 1, n)

\* A variant of stream_remaining_to_file's first copy that starts the file
\* empty.
SpillNothing(data_read) == <<>>

\* `std::io::copy(&mut Cursor::new(data_read), &mut file)`: the file starts
\* with what was read before the spill.
Spill(data_read) == data_read

\* All the bytes of a sequence of chunks.
RECURSIVE Flatten(_)
Flatten(chunks) ==
    IF chunks = <<>> THEN <<>> ELSE Head(chunks) \o Flatten(Tail(chunks))

\* A stream over content B: the reader (a Cursor, or a reader that returns
\* less than asked for and, when faulty, may fail), the reading future
\* (fut, buf, the chunk it is sending), the channel, the consumer (cpc, the
\* Vec it fills, the temp file it spills to), and what has happened.
NewStream(B, reader, faulty, consumer) ==
    [B |-> B, reader |-> reader, faulty |-> faulty, consumer |-> consumer,
     fut |-> "read", src |-> B, buf |-> [j \in 1..BufLen |-> ZeroByte],
     chunk |-> <<>>, chan |-> <<>>, sinkOpen |-> TRUE, rxOpen |-> TRUE,
     cpc |-> "next", data |-> <<>>, file |-> <<>>, sent |-> <<>>,
     midChunk |-> FALSE, readFailed |-> FALSE, droppedEarly |-> FALSE]

InitStream ==
    /\ NoPipeline
    /\ dedupe = NoDedupe
    /\ command = NoCommand
    /\ message = NoMessage
    /\ \E B \in Contents, reader \in Readers, faulty \in BOOLEAN,
          consumer \in Consumers :
          /\ faulty => reader = "stream"
          /\ stream = NewStream(B, reader, faulty, consumer)

\* `source.read(buf.as_mut())` returns n > 0 bytes: the chunk is made.
StreamRead(n) ==
    /\ stream.fut = "read"
    /\ stream.src # <<>>
    /\ n <= Min(BufLen, Len(stream.src))
    /\ stream.reader = "cursor" => n = Min(BufLen, Len(stream.src))
    /\ LET buf == ReadInto(stream.buf, stream.src, n) IN
       stream' = [stream EXCEPT
                    !.fut = "send", !.buf = buf, !.chunk = Chunk(buf, n),
                    !.src = SubSeq(stream.src, n + 1, Len(stream.src))]
    /\ UNCHANGED << pipeline, dedupe, command, message >>

\* The read returns 0: the loop breaks, the future returns Ok and drops
\* the sink.
StreamEof ==
    /\ stream.fut = "read"
    /\ stream.src = <<>>
    /\ stream' = [stream EXCEPT !.fut = "ok", !.sinkOpen = FALSE]
    /\ UNCHANGED << pipeline, dedupe, command, message >>

\* The read fails: `?` returns the error and drops the sink.
StreamReadFails ==
    /\ stream.fut = "read"
    /\ stream.faulty
    /\ stream' = [stream EXCEPT !.fut = "err", !.sinkOpen = FALSE,
                                !.readFailed = TRUE]
    /\ UNCHANGED << pipeline, dedupe, command, message >>

\* A variant of StreamSend that ignores a closed channel.
StreamSendIgnoresClosed ==
    /\ stream.fut = "send"
    /\ stream.rxOpen => Len(stream.chan) < StreamCapacity
    /\ stream' = [stream EXCEPT
                    !.fut = "read", !.chunk = <<>>,
                    !.chan = IF stream.rxOpen
                             THEN Append(stream.chan, stream.chunk)
                             ELSE stream.chan,
                    !.sent = stream.sent \o stream.chunk]
    /\ UNCHANGED << pipeline, dedupe, command, message >>

\* `sink.send(bytes).await?`: waits for room in the channel; fails when the
\* receiver is gone.
StreamSend ==
    /\ stream.fut = "send"
    /\ stream.rxOpen => Len(stream.chan) < StreamCapacity
    /\ stream' =
         IF stream.rxOpen
         THEN [stream EXCEPT !.fut = "read", !.chunk = <<>>,
                             !.chan = Append(stream.chan, stream.chunk),
                             !.sent = stream.sent \o stream.chunk]
         ELSE [stream EXCEPT !.fut = "err", !.chunk = <<>>,
                             !.sinkOpen = FALSE]
    /\ UNCHANGED << pipeline, dedupe, command, message >>

\* `stream.next()` returns a chunk.  collect_stream appends it; so does
\* stream_to_read, which then goes to stream_remaining_to_file when the
\* data has reached THRESHOLD; stream_remaining_to_file writes the chunk to
\* the file; stream_to_string appends the characters from_utf8_lossy makes
\* of the chunk.
StreamNext ==
    /\ stream.cpc \in {"next", "file"}
    /\ stream.chan # <<>>
    /\ LET bytes == Head(stream.chan)
           data == stream.data \o bytes
       IN stream' =
            IF stream.cpc = "file"
            THEN [stream EXCEPT !.chan = Tail(stream.chan),
                                !.file = stream.file \o bytes]
            ELSE IF stream.consumer = "stream_to_read"
                    /\ Len(data) >= THRESHOLD
            THEN [stream EXCEPT !.chan = Tail(stream.chan),
                                !.cpc = "file", !.data = <<>>,
                                !.file = Spill(data),
                                !.midChunk = Len(data) > THRESHOLD]
            ELSE IF stream.consumer = "stream_to_string"
            THEN [stream EXCEPT !.chan = Tail(stream.chan),
                                !.data = stream.data \o from_utf8_lossy(bytes)]
            ELSE [stream EXCEPT !.chan = Tail(stream.chan), !.data = data]
    /\ UNCHANGED << pipeline, dedupe, command, message >>

\* `stream.next()` returns None: the channel is empty and the sink is
\* dropped.  The consumer returns what it holds: the Vec, a Cursor over
\* it, the rewound file, or the String.
StreamEnd ==
    /\ stream.cpc \in {"next", "file"}
    /\ stream.chan = <<>>
    /\ ~stream.sinkOpen
    /\ stream' = [stream EXCEPT
                    !.cpc = IF stream.cpc = "file" THEN "File"
                            ELSE IF stream.consumer = "stream_to_string"
                            THEN "String"
                            ELSE "Cursor"]
    /\ UNCHANGED << pipeline, dedupe, command, message >>

\* The consumer is dropped before the stream has ended: the receiver
\* closes and the chunks in the channel are dropped.
StreamDrop ==
    /\ stream.cpc \in {"next", "file"}
    /\ stream.sinkOpen
    /\ stream' = [stream EXCEPT
                    !.cpc = "dropped", !.rxOpen = FALSE, !.chan = <<>>,
                    !.droppedEarly =
                        stream.src # <<>> \/ stream.fut = "send"]
    /\ UNCHANGED << pipeline, dedupe, command, message >>

NextStream ==
    \/ \E n \in 1..BufLen : StreamRead(n)
    \/ StreamEof
    \/ StreamReadFails
    \/ StreamSend
    \/ StreamNext
    \/ StreamEnd
    \/ StreamDrop

SpecStream == InitStream /\ [][NextStream]_vars

(***************************************************************************)
(* The text rendering of a message: MessageTransformer::transform walks    *)
(* the headers of the parsed message and asks the TextMessageVisitor for   *)
(* the line of each, then writes the separator and the body.               *)
(***************************************************************************)
\* `const HEADERS: [&str; 6]`.
HEADERS == {"Date", "From", "To", "CC", "BCC", "Subject"}

\* A header of a parsed message: its name, the kind of its HeaderValue,
\* whether the list it holds is empty, its formatted value.
Header(name, kind, empty) ==
    [name |-> name, kind |-> kind, empty |-> empty, value |-> "v:" \o name]

\* The headers of the messages: those of the test message, and headers of
\* every value kind that mail_parser parses.
MessageHeaders ==
    { Header("Date", "DateTime", FALSE),
      Header("From", "Address", FALSE),
      Header("To", "AddressList", FALSE),
      Header("CC", "GroupList", FALSE),
      Header("BCC", "AddressList", TRUE),
      Header("Subject", "Text", FALSE),
      Header("Message-ID", "Text", FALSE),
      Header("Keywords", "TextList", FALSE),
      Header("Reply-To", "Address", FALSE),
      Header("Resent-To", "AddressList", FALSE),
      Header("Resent-Cc", "Group", FALSE),
      Header("Resent-Date", "DateTime", FALSE),
      Header("Content-Type", "ContentType", FALSE),
      Header("Comments", "Empty", TRUE) }

\* Most headers of a message.
MaxHeaders == 2

Messages == UNION { [1..n -> MessageHeaders] : n \in 0..MaxHeaders }

\* A line of the rendering: "name: value".
Line(name, value) == [name |-> name, value |-> value]

\* Option::None of a visitor.
NoLine == Line("", "")

\* MessageFormatter: None for an empty list.
format_list(h) == IF h.empty THEN NoLine ELSE Line(h.name, h.value)

\* TextMessageVisitor::on_header_addresses.
on_header_addresses(h) == format_list(h)

\* TextMessageVisitor::on_header_groups.
on_header_groups(h) == format_list(h)

\* TextMessageVisitor::on_header_text: `HEADERS.contains(&name).then_some(..)`.
on_header_text(h) ==
    IF h.name \in HEADERS THEN Line(h.name, h.value) ELSE NoLine

\* TextMessageVisitor::on_header_text_list.
on_header_text_list(h) == format_list(h)

\* TextMessageVisitor::on_header_date_time.
on_header_date_time(h) == Line(h.name, h.value)

\* TextMessageVisitor::on_header_content_type.
on_header_content_type(h) == NoLine

\* MessageTransformer::transform_header: the visitor's method for the kind
\* of the value.
transform_header(h) ==
    CASE h.kind \in {"Address", "AddressList"} -> on_header_addresses(h)
      [] h.kind \in {"Group", "GroupList"} -> on_header_groups(h)
      [] h.kind = "Text" -> on_header_text(h)
      [] h.kind = "TextList" -> on_header_text_list(h)
      [] h.kind = "DateTime" -> on_header_date_time(h)
      [] h.kind = "ContentType" -> on_header_content_type(h)
      [] OTHER -> NoLine

\* TextMessageVisitor::on_part_html, `html2text::from_read(.., 120)`, and
\* the default on_part_text.
on_part(body) ==
    IF body = "html" THEN Line("", "html2text:120") ELSE Line("", "text")

InitMessage ==
    /\ NoPipeline
    /\ dedupe = NoDedupe
    /\ command = NoCommand
    /\ stream = NoStream
    /\ \E headers \in Messages, body \in {"text", "html"} :
          message = [pc |-> "headers", headers |-> headers, body |-> body,
                     next |-> 1, written |-> <<>>]

\* One turn of `for header in message.headers()`: the line of the header,
\* when the visitor returns one, is written.
TransformHeader ==
    /\ message.pc = "headers"
    /\ message.next <= Len(message.headers)
    /\ LET line == transform_header(message.headers[message.next]) IN
       message' = [message EXCEPT
                     !.next = @ + 1,
                     !.written = IF line = NoLine THEN @ ELSE Append(@, line)]
    /\ UNCHANGED << pipeline, dedupe, command, stream >>

\* After the headers: on_head_body_separator, then the body.
TransformBodies ==
    /\ message.pc = "headers"
    /\ message.next > Len(message.headers)
    /\ message' = [message EXCEPT
                     !.pc = "done",
                     !.written = @ \o << Line("", "\n"), on_part(message.body) >>]
    /\ UNCHANGED << pipeline, dedupe, command, stream >>

NextMessage ==
    \/ TransformHeader
    \/ TransformBodies

SpecMessage == InitMessage /\ [][NextMessage]_vars

(***************************************************************************)
(* Properties.                                                             *)
(***************************************************************************)
\* The entries written to the archive as files, by position in the writer.
FileEntries == { i \in DOMAIN zipper : zipper[i].kind = "file" }

\* The chain of an output: the chain of the context that produced it for a
\* Processed output, that chain extended by the output's fingerprint for an
\* Embedded one.
SourceChain(out) ==
    IF out.kind = "Processed" THEN out.state
    ELSE Append(out.state, out.checksum)

\* join(id_chain)/name as a sequence of path components.
JoinPath(chain, name) == Append(chain, name)

\* C2: whenever process succeeds, the file it returns is a ZIP archive,
\* whether zero, one or many entries were appended.
C2_ReturnedFileIsZip == pc = "ok" => archive.kind = "zip"

\* C3: every file entry of the archive has the path join(id_chain)/name,
\* id_chain being the chain of its source output, at every depth and for
\* both recurse settings.
C3_EntryPathIsChainAndName ==
    \A i \in FileEntries :
        zipper[i].path = JoinPath(SourceChain(zipper[i].entry.out),
                                  zipper[i].entry.out.name)

\* The archive entries made so far: held by a worker, sent, or written.
EntriesMade ==
    { workers[w].entry : w \in { v \in WorkerIds : workers[v].pc = "send" } }
        \cup log.sent \cup { zipper[i].entry : i \in DOMAIN zipper }

\* C4: with recurse=false the dispatcher is invoked once, on the root, no
\* Embedded output is re-processed, and every archive entry has a chain of
\* length 0 (a root artifact) or 1 (a first-level embedded file).
C4_NoRecursion ==
    ~recurse =>
        /\ \A d \in log.dispatched : d.input = <<>> /\ d.n = 1
        /\ pc \in {"ok", "err"} => Cardinality(log.dispatched) = 1
        /\ \A w \in WorkerIds : workers[w].pc # "dispatch"
        /\ \A e \in EntriesMade :
              Len(e.id_chain) = IF e.out.kind = "Embedded" THEN 1 ELSE 0

\* A run without recursion that succeeded with the raw bytes of a
\* first-level embedded file in the archive.
C4_Witness ==
    /\ ~recurse
    /\ pc = "ok"
    /\ \E i \in FileEntries :
          /\ zipper[i].entry.out.kind = "Embedded"
          /\ Len(zipper[i].entry.id_chain) = 1

IsPrefix(a, b) == Len(a) <= Len(b) /\ SubSeq(b, 1, Len(a)) = a

IsStrictPrefix(a, b) == IsPrefix(a, b) /\ Len(a) < Len(b)

\* Output o was produced below the embedded file of output e: by the
\* dispatcher invocation on e's file or by one further down.
Below(e, o) == e.kind = "Embedded" /\ IsStrictPrefix(e.path, o.path)

\* The dispatcher invocations on the file of an Embedded output.
DispatchesOf(o) == { d \in log.dispatched : d.input = o.path }

\* With recurse=true each Embedded output the loop received is dispatched
\* once, with the child chain and the MIME type and kinds it carries.
DispatchedOnce ==
    \A o \in log.received :
        o.kind = "Embedded" =>
            /\ \A d \in DispatchesOf(o) :
                  /\ d.n = 1
                  /\ d.chain = Append(o.state, o.checksum)
                  /\ d.mimetype = o.mimetype
                  /\ d.types = o.types
            /\ loopPc = "done" => DispatchesOf(o) # {}

\* C5 as stated: with recurse=true each Embedded output is dispatched once
\* with the child context, and the chain of every output produced below an
\* embedded file has that file's chain as a strict prefix.
C5_StrictPrefixBelow ==
    recurse =>
        /\ DispatchedOnce
        /\ \A e, o \in log.emitted :
              Below(e, o) => IsStrictPrefix(SourceChain(e), SourceChain(o))

\* C5 amended: with recurse=true each Embedded output is dispatched once
\* with the child context, and the chain of every output produced below an
\* embedded file has that file's chain as a prefix: equal to it for the
\* Processed outputs of the file itself, strictly longer for every
\* Embedded output.
C5_PrefixBelow ==
    recurse =>
        /\ DispatchedOnce
        /\ \A e, o \in log.emitted :
              Below(e, o) =>
                  /\ IsPrefix(SourceChain(e), SourceChain(o))
                  /\ o.kind = "Embedded" =>
                        IsStrictPrefix(SourceChain(e), SourceChain(o))
                  /\ (o.kind = "Processed" /\ Len(o.path) = Len(e.path) + 1)
                        => SourceChain(o) = SourceChain(e)

\* A recursive run in which the loop has returned and an embedded file
\* produced both a Processed and an Embedded output.
C5_Witness ==
    /\ recurse
    /\ loopPc = "done"
    /\ \E e, o1, o2 \in log.received :
          /\ Below(e, o1) /\ o1.kind = "Processed"
          /\ Below(e, o2) /\ o2.kind = "Embedded"
          /\ DispatchesOf(e) # {}

\* C7: the ZIP is finalized only after the output channel is drained and
\* closed, the pool is joined and every entry a worker sent is appended;
\* nothing is sent or appended after finalization.
C7_FinalizedLast ==
    builderPc = "ok" =>
        /\ outputs = <<>> /\ outSenders = 0
        /\ log.received = log.emitted
        /\ loopPc = "done"
        /\ poolQueue = <<>>
        /\ \A w \in WorkerIds : workers[w].pc = "idle"
        /\ entries = <<>> /\ arcSenders = 0
        /\ log.sent = { zipper[i].entry : i \in FileEntries }
        /\ Len(zipper) = 2 * Cardinality(log.sent)
        /\ archive = build(zipper, size, current_path)

\* A finalized archive of a recursive run in which workers sent several
\* entries.
C7_Witness ==
    /\ builderPc = "ok"
    /\ recurse
    /\ Cardinality(log.sent) >= 3

C9_ErrItemLoggedAndSkipped ==
    /\ \A e \in EntriesMade : e.out.kind # "Err" /\ e.out \in log.received
    /\ log.errsLogged <= log.emittedErrs
    /\ loopPc # "recv" =>
          /\ log.errsLogged = log.emittedErrs
          /\ log.received = log.emitted
    /\ pc = "err" => disp[0].status = "err" \/ builderPc = "err"

\* A run that succeeded although the loop logged an Err item, with entries
\* written for the outputs around it.
C9_Witness ==
    /\ pc = "ok"
    /\ log.errsLogged > 0
    /\ Cardinality(FileEntries) >= 2

\* Every task, worker and dispatcher invocation has come to its end.
Quiescent ==
    /\ loopPc = "done"
    /\ builderPc \in {"ok", "err"}
    /\ poolQueue = <<>>
    /\ \A w \in WorkerIds : workers[w].pc = "idle"
    /\ \A i \in Invocations : disp[i].status \notin {"start", "running"}

\* C1: under fair scheduling a call to process eventually returns, an
\* archive or an error, for every input, kinds set, recurse flag and
\* number of executor threads, also with more entries pending than the
\* channel holds.
C1_ProcessReturns == <>(pc \in {"ok", "err"})

\* C10: when the root dispatcher call fails, process returns an error and
\* the loop and the builder drain their channels until these close: no
\* processor, worker or recursive invocation stays blocked.
C10_RootFailureDrains ==
    (disp[0].status = "err") ~> (pc = "err" /\ Quiescent)

\* C6: with recurse=true a failed recursive dispatcher call is only logged:
\* the entry of the embedded file is still made and sent to the builder,
\* and it is in the archive the builder finalizes.
C6_EntryDespiteFailedRecursion ==
    (recurse /\ fault = "none") =>
        \A o \in log.recFailed :
            /\ \E e \in EntriesMade : e.out = o
            /\ builderPc = "ok" =>
                  \E i \in FileEntries : zipper[i].entry.out = o

\* C11: a failure of one sub-task of a processor invocation does not cancel
\* the others: no requested sub-task is dropped before it has run to its
\* end.
C11_NoSubTaskCancelled == log.cancelled = {}

\* The invocations that have returned.
Returned == { i \in Invocations : disp[i].status \in {"ok", "err"} }

\* The outputs the invocation on `input` has put on the channel.
EmittedBy(input) ==
    { o \in log.emitted : Len(o.path) = Len(input) + 1 /\ IsPrefix(input, o.path) }

\* C12: an invocation for which no processor is found returns an error and
\* emits nothing; none returns success without having run a processor.
C12_UnsupportedMimeTypeReturned ==
    \A i \in Returned :
        determine_processors(disp[i].mimetype, disp[i].types) = {} =>
            disp[i].status = "err" /\ EmittedBy(disp[i].input) = {}

\* The positions of the embedded children of a file: the members of a ZIP
\* that are files, the messages of an mbox, the attachments of a message.
Children(f) ==
    { n \in DOMAIN File(f).members :
        File(f).members[n].kind \in {"file", "msg", "att"} }

\* C13: embedded children are discovered whatever kinds are requested: an
\* invocation on a container that returned Ok has emitted one Embedded
\* output per child.
C13_ChildrenAlwaysDiscovered ==
    \A i \in Invocations :
        disp[i].status = "ok" =>
            \A n \in Children(disp[i].file) :
                \E o \in EmittedBy(disp[i].input) :
                    /\ o.kind = "Embedded"
                    /\ o.path = TempPath(disp[i].input, "Embedded", n - 1)

\* The computations of dedupe_checksum that have returned.
Computed == { c \in Runs : dedupe.run[c].pc = "done" }

\* C14: for a MIME type other than message/rfc822 the fingerprint is the
\* MD5 of exactly the content bytes, whatever the length of the content
\* and however the reader splits it into reads.
C14_Md5OfContent ==
    \A c \in Computed :
        dedupe.mime # "message/rfc822" =>
            dedupe.run[c].checksum = Md5(dedupe.content)

\* C15: for message/rfc822 the fingerprint is the MD5 of the Message-ID
\* alone when the content has one, the MD5 of the whole content otherwise.
C15_Md5OfMessageId ==
    \A c \in Computed :
        dedupe.mime = "message/rfc822" =>
            dedupe.run[c].checksum =
                IF message_id(dedupe.content) # <<>>
                THEN Md5(message_id(dedupe.content))
                ELSE Md5(dedupe.content)

\* C16: two computations over the same bytes and the same MIME type give
\* the same fingerprint, whatever their readers and the reads these make.
C16_FingerprintIsFunction ==
    \A c1, c2 \in Computed : dedupe.run[c1].checksum = dedupe.run[c2].checksum

\* C17: the fingerprint an embedded processor computes from memory, which
\* becomes the last component of the file's chain, equals the
\* fingerprint recomputed from the bytes of the archived file and the MIME
\* type of the output.
C17_FingerprintRecomputable ==
    (Computed = Runs /\ dedupe.run[1].reader = "cursor") =>
        LET chain == child_id_chain([state |-> <<>>,
                                     checksum |-> dedupe.run[1].checksum])
        IN  chain[Len(chain)] = dedupe.run[2].checksum

\* The call of stream_command has returned.
CommandReturned == command.pc \in {"returned", "rendered"}

\* A pump of the returned call failed.
PumpFailed ==
    \E r \in {command.writing, command.reading, command.erroring} :
        r \notin {"idle", "ok"}

\* What the call returns once the child ran and was waited for: Ok(status)
\* only if the three pumps succeeded and the status is success, otherwise
\* PostExit with the status of the child, with the I/O error of a pump
\* when one failed, else with the non-zero-status error.
AfterExit ==
    (command.spawnOk /\ command.waitOk) =>
        /\ command.result.tag \in {"Ok", "PostExit"}
        /\ command.result.status = command.code
        /\ command.result.tag = "Ok" <=>
              (~PumpFailed /\ success(command.code))
        /\ command.result.tag = "PostExit" =>
              IF PumpFailed
              THEN command.result.err \in {"BrokenPipe", "WriteFailed"}
              ELSE command.result.err = "NonZero"

\* C18, as stated: PreExit is returned exactly when the child could not be
\* spawned, and then nothing has been written to the output or error
\* sink; once the child ran the call returns Ok(status) only if the three
\* pumps succeeded and the status is success, otherwise PostExit with the
\* status and the pump's error, else the non-zero-status error.
C18_PreExitIffSpawnFailed ==
    CommandReturned =>
        /\ command.result.tag = "PreExit" <=> ~command.spawnOk
        /\ command.result.tag = "PreExit" =>
              command.output = <<>> /\ command.error = <<>>
        /\ command.spawnOk =>
              /\ command.result.tag \in {"Ok", "PostExit"}
              /\ command.result.status = command.code

\* C18, amended: PreExit is returned exactly when the child could not be
\* spawned or waiting for it failed; when the spawn failed nothing has
\* been written to the sinks, when the wait failed the sinks hold what the
\* pumps wrote.  Once the child ran and was waited for, the result is as
\* the claim states.
C18_PreExitIffSpawnOrWaitFailed ==
    CommandReturned =>
        /\ command.result.tag = "PreExit" <=>
              (~command.spawnOk \/ ~command.waitOk)
        /\ ~command.spawnOk =>
              command.output = <<>> /\ command.error = <<>>
        /\ AfterExit

\* The child ran, a pump failed, the sinks were written to, and the wait
\* failed.
C18_Witness ==
    /\ CommandReturned
    /\ command.spawnOk
    /\ ~command.waitOk
    /\ PumpFailed
    /\ command.error # <<>>
    /\ command.result.tag = "PreExit"

\* What a sink received of the bytes read: of every buffer written to it,
\* the bytes the read before the write had returned.
RECURSIVE Delivered(_, _)
Delivered(sink, reads) ==
    IF reads = <<>> THEN <<>>
    ELSE SubSeq(sink, 1, Head(reads))
            \o Delivered(SubSeq(sink, BufLen + 1, Len(sink)), Tail(reads))

RendererRan ==
    /\ command.pc = "rendered"
    /\ command.spawnOk
    /\ command.waitOk
    /\ ~PumpFailed

\* C20: when the renderer exits with code 1 the rendering succeeds and the
\* PDF written to the output is the rendered PDF that is emitted; any
\* other non-success exit code makes the rendering fail.
C20_ExitCodeOneTolerated ==
    RendererRan =>
        /\ command.code = 1 =>
              /\ command.rendered.status = "ok"
              /\ command.rendered.pdf = command.output
        /\ command.code \notin {0, 1} => command.rendered.status = "err"

\* The returned invocations that ran the embedded processor of `mime` on a
\* file it could open.
RanEmbedded(mime) ==
    { i \in Returned :
        /\ disp[i].mimetype = mime
        /\ "Embedded" \in disp[i].types
        /\ File(disp[i].file).readable
        /\ File(disp[i].file).parses }

\* The positions of the members of kind `kind` in a file.
MembersOf(f, kind) ==
    { n \in DOMAIN File(f).members : File(f).members[n].kind = kind }

\* The member at position n of the input of invocation i has been emitted
\* as an Embedded output.
EmittedMember(i, n) ==
    \E o \in EmittedBy(disp[i].input) :
        /\ o.kind = "Embedded"
        /\ o.path = TempPath(disp[i].input, "Embedded", n - 1)

\* C21: a message of an mbox that fails to parse is sent as an Err item and
\* the processor goes on: it returns success, having emitted every
\* parseable message, and one Err item per failed message.
C21_ParseFailureSentAndSkipped ==
    \A i \in RanEmbedded("application/mbox") :
        MembersOf(disp[i].file, "cut") # {} =>
            /\ disp[i].status = "ok"
            /\ \A n \in MembersOf(disp[i].file, "msg") : EmittedMember(i, n)
            /\ log.emittedErrs >= Cardinality(MembersOf(disp[i].file, "cut"))

\* C22: the ZIP processor visits the members in index order: what it has
\* emitted is, at every moment, the file members before its position, and
\* all of them once it has returned; a directory member and a member that
\* fails give no output and do not stop it: it returns success.
C22_ZipMembersInOrderFailuresSkipped ==
    \A i \in Invocations :
        (/\ disp[i].status \in {"running", "ok", "err"}
         /\ disp[i].mimetype = "application/zip"
         /\ disp[i].types = {"Embedded"}
         /\ File(disp[i].file).readable
         /\ File(disp[i].file).parses) =>
            LET f == disp[i].file
                pos == IF disp[i].status = "running"
                       THEN disp[i].tasks["Embedded"]
                       ELSE Len(File(f).members)
            IN /\ disp[i].status # "err"
               /\ \A n \in DOMAIN File(f).members :
                     EmittedMember(i, n) <=>
                        (n <= pos /\ File(f).members[n].kind = "file")

\* A ZIP invocation has returned Ok after a directory member and a failed
\* member, and has emitted the member after them.
C22_Witness ==
    \E i \in RanEmbedded("application/zip") :
        /\ disp[i].status = "ok"
        /\ MembersOf(disp[i].file, "dir") # {}
        /\ \E b \in MembersOf(disp[i].file, "bad") :
              \E n \in MembersOf(disp[i].file, "file") :
                  n > b /\ EmittedMember(i, n)

\* The positions of the members of a file that its embedded processor
\* fails on: a message that does not parse or cannot be written out, a ZIP
\* member that cannot be read, an attachment without part or content type.
FailingMembers(f) ==
    { n \in DOMAIN File(f).members :
        File(f).members[n].kind \in {"cut", "msg_err", "bad", "att_err"} }

\* C23: an error on one member, message or attachment never aborts the
\* embedded processor and is sent as an Err item: an invocation that ran the
\* embedded processor returns success, has emitted every member it does not
\* fail on, the attachments after a failed attachment included, and the
\* channel has got an Err item for every member it fails on.
C23_MemberErrorNeverAborts ==
    \A i \in Returned :
        (/\ determine_processors(disp[i].mimetype, disp[i].types)
               = {"Embedded"}
         /\ File(disp[i].file).readable
         /\ File(disp[i].file).parses) =>
            /\ disp[i].status = "ok"
            /\ \A n \in Children(disp[i].file) : EmittedMember(i, n)
            /\ log.emittedErrs >= Cardinality(FailingMembers(disp[i].file))

\* The Embedded outputs the mbox processor called on its own has emitted.
MboxOutputs == { o \in EmittedBy(disp[0].input) : o.kind = "Embedded" }

\* C24: the mbox processor, whatever the kinds of its context, emits one
\* Embedded output per parseable message, in message order: what it has
\* emitted is at every moment the messages before its position, all of
\* them once it has returned Ok, and nothing else; each output is named
\* "mbox-message.eml", has the MIME type message/rfc822, the fingerprint of
\* its own message and the id_chain of the context of the mbox.
C24_OneOutputPerMessage ==
    (disp[0].mimetype = "application/mbox") =>
        LET f == disp[0].file
            msgs == MembersOf(f, "msg")
        IN /\ \A o \in MboxOutputs :
                 \E n \in msgs :
                    /\ o.path = TempPath(disp[0].input, "Embedded", n - 1)
                    /\ o.file = File(f).members[n].file
                    /\ o.name = "mbox-message.eml"
                    /\ o.mimetype = "message/rfc822"
                    /\ o.checksum = Fingerprint(o.file, "message/rfc822")
                    /\ o.state = disp[0].chain
                    /\ \A k \in msgs : k < n => EmittedMember(0, k)
           /\ disp[0].status = "running" =>
                 \A n \in msgs :
                    EmittedMember(0, n) <=> n <= disp[0].tasks["Embedded"]
           /\ disp[0].status = "ok" =>
                 /\ \A n \in msgs : EmittedMember(0, n)
                 /\ Cardinality(MboxOutputs) = Cardinality(msgs)

\* The mbox processor has returned Ok with a context without kinds, having
\* emitted two messages, which the receiver has got.
C24_Witness ==
    /\ disp[0].mimetype = "application/mbox"
    /\ disp[0].types = {}
    /\ disp[0].status = "ok"
    /\ Cardinality(MboxOutputs) = 2
    /\ MboxOutputs \subseteq log.received
    /\ ~outRxOpen

\* The reading future has ended.
FutureEnded == stream.fut \in {"ok", "err"}

\* What the consumer that has returned holds: the collected bytes, or what
\* reading its reader to the end yields.
Consumed == IF stream.cpc = "File" THEN stream.file ELSE stream.data

\* C25: collecting the stream while the reading future runs to completion
\* yields exactly B: the chunks on their way are those read, in read
\* order, none lost, duplicated or padded, each of at least one byte and at
\* most the buffer's length, and the stream ends after the last chunk.
C25_CollectYieldsContent ==
    (stream.fut # "none" /\ stream.consumer = "collect"
        /\ stream.cpc # "dropped") =>
        /\ stream.data \o Flatten(stream.chan) \o stream.chunk \o stream.src
              = stream.B
        /\ \A j \in DOMAIN stream.chan :
              Len(stream.chan[j]) \in 1..BufLen
        /\ (stream.cpc = "Cursor" /\ stream.fut = "ok") =>
              /\ stream.data = stream.B
              /\ stream.chan = <<>>

\* A content longer than the buffer has been collected, from a reader that
\* returned less than the buffer takes.
C25_Witness ==
    /\ stream.fut = "ok"
    /\ stream.consumer = "collect"
    /\ stream.cpc = "Cursor"
    /\ stream.reader = "stream"
    /\ Len(stream.B) > BufLen
    /\ stream.data = stream.B

\* C26: reading the reader stream_to_read returns to its end yields
\* exactly B, when the content stays below the threshold (a Cursor over the
\* Vec) and when it reaches it (the temp file), the threshold being crossed
\* at the end or in the middle of a chunk.
C26_StreamToReadYieldsContent ==
    (stream.fut = "ok" /\ stream.consumer = "stream_to_read"
        /\ stream.cpc \in {"Cursor", "File"}) =>
        /\ Consumed = stream.B
        /\ stream.cpc = "File" <=> Len(stream.B) >= THRESHOLD

\* The threshold was crossed in the middle of a chunk, chunks followed the
\* spill, and the file was read back.
C26_Witness ==
    /\ stream.fut = "ok"
    /\ stream.consumer = "stream_to_read"
    /\ stream.cpc = "File"
    /\ stream.midChunk
    /\ Len(stream.B) > BufLen
    /\ stream.file = stream.B

\* C27: the reading future ends with an error when a read of the source
\* fails or when the consumer was dropped while input was left to read or
\* to send; it ends with success only after the end of input, with every
\* chunk read sent into the channel; when it has ended, the sink is
\* dropped, so the stream ends after the chunks the channel holds.
C27_FutureResult ==
    FutureEnded =>
        /\ stream.readFailed => stream.fut = "err"
        /\ stream.droppedEarly => stream.fut = "err"
        /\ stream.fut = "ok" =>
              /\ stream.src = <<>>
              /\ stream.chunk = <<>>
              /\ stream.sent = stream.B
        /\ stream.fut = "err" => (stream.readFailed \/ ~stream.rxOpen)
        /\ ~stream.sinkOpen
        /\ stream.cpc \in {"next", "file"} =>
              (stream.chan = <<>> => ENABLED StreamEnd)

\* The future has ended with an error because the consumer was dropped
\* while a chunk was waiting to be sent.
C27_Witness ==
    /\ stream.fut = "err"
    /\ stream.droppedEarly
    /\ ~stream.readFailed
    /\ stream.sent # <<>>

\* C28: while every worker is busy, the outputs the loop has taken from the
\* output channel and whose handling has not started are no more than the
\* output channel itself may hold: slow workers block the producers,
\* nothing accumulates outside of the bounded channels.
C28_PendingOutputsBounded ==
    (\A w \in WorkerIds : workers[w].pc # "idle") =>
        Len(poolQueue) <= OutputCapacity

IsFileRecord(r) == r.kind = "file"

\* The entries whose files the writer holds, in the order of writing.
RECURSIVE EntriesOf(_)
EntriesOf(records) ==
    IF records = <<>> THEN <<>>
    ELSE << Head(records).entry >> \o EntriesOf(Tail(records))

Written(z) == EntriesOf(SelectSeq(z, IsFileRecord))

\* C29: every step that writes to the archive writes one whole entry, the
\* one the archive-entry channel delivers next, after all that was written
\* before: the entries are in the archive in the order of their receipt,
\* and the records of two entries never interleave.
C29_AppendsInReceiveOrder ==
    [][ zipper' # zipper =>
            /\ entries # <<>>
            /\ Written(zipper') = Append(Written(zipper), Head(entries))
            /\ SubSeq(zipper', 1, Len(zipper)) = zipper
            /\ \A j \in (Len(zipper) + 1)..Len(zipper') :
                  zipper'[j].entry = Head(entries)
            /\ entries' \in {Tail(entries), <<>>} ]_vars

\* A recursive run has ended with the entries of several workers written,
\* two different ones first.
C29_Witness ==
    /\ Len(Written(zipper)) >= 2
    /\ Written(zipper)[1] # Written(zipper)[2]
    /\ recurse
    /\ builderPc = "ok"

\* C30: the archive holds file entries only: append writes no directory
\* entry, for no component of a chain and not for the root.
C30_NoDirectoryEntries ==
    \A j \in DOMAIN zipper : zipper[j].kind = "file"

\* C33: the pump delivers to the writer exactly the bytes it read, in
\* order: once the stderr pump of a call has ended with success, the
\* caller's error sink holds the bytes the child wrote to its stderr,
\* unchanged, whatever their number and however the reads split them.
C33_PumpDeliversBytesRead ==
    (CommandReturned /\ command.erroring = "ok") =>
        command.error = command.childErr

\* 1 MiB, 1,048,576 bytes: more than the buffer of MB = 1,000,000 bytes.
MiB == BufLen + 1

\* stream_to_read has returned a reader.
ReaderReturned ==
    /\ stream.consumer = "stream_to_read"
    /\ stream.cpc \in {"Cursor", "File"}

\* C34: stream_to_read returns an in-memory reader when the stream, all
\* the chunks sent, is shorter than 1 MiB and a temp-file reader when it is
\* 1 MiB long or longer; the file then holds the bytes buffered before the
\* spill followed by the rest of the stream.
C34_SpillAtOneMiB ==
    ReaderReturned =>
        /\ stream.cpc = "Cursor" <=> Len(stream.sent) < MiB
        /\ stream.cpc = "File" <=> Len(stream.sent) >= MiB
        /\ stream.cpc = "File" => stream.file = stream.sent

\* The String stream_to_string has returned.
StringReturned ==
    /\ stream.consumer = "stream_to_string"
    /\ stream.cpc = "String"

\* C35: stream_to_string returns the lossy UTF-8 decoding of the
\* concatenation of all chunks, so its result is the same however the
\* bytes are split into chunks, a split in the middle of a character of
\* several bytes included.
C35_LossyDecodingOfWholeStream ==
    StringReturned => stream.data = from_utf8_lossy(stream.sent)

\* The header lines of the rendering: those with a name.
HeaderLines ==
    { message.written[j] : j \in { i \in DOMAIN message.written :
                                     message.written[i].name # "" } }

\* C32: the text rendering of a message has a header line only for the
\* headers named Date, From, To, CC, BCC or Subject: for a header of any
\* value kind with another name the visitor emits nothing.
C32_OnlyAllowlistedHeaders ==
    message.pc # "none" => \A line \in HeaderLines : line.name \in HEADERS

\* The temp files made so far: one behind every Ok output put on the
\* output channel.
TempFiles == { o.path : o \in log.emitted }

\* The values that own the temp file p (a TempPath is moved, never copied,
\* and its drop unlinks the file): the outputs on the channel, in the queue
\* of the pool and in a worker that re-processes one; the archive entries
\* in a worker that sends and on the channel; the builder's current_path
\* until build_archive returns.
OutputOwners(p) ==
    Cardinality({ j \in DOMAIN outputs : outputs[j].path = p })
      + Cardinality({ j \in DOMAIN poolQueue : poolQueue[j].path = p })
      + Cardinality({ w \in WorkerIds : /\ workers[w].pc = "dispatch"
                                        /\ workers[w].out.path = p })

EntryOwners(p) ==
    Cardinality({ w \in WorkerIds : /\ workers[w].pc = "send"
                                     /\ workers[w].entry.path = p })
      + Cardinality({ j \in DOMAIN entries : entries[j].path = p })

BuilderOwners(p) ==
    IF builderPc = "recv" /\ current_path = << p >> THEN 1 ELSE 0

Owners(p) == OutputOwners(p) + EntryOwners(p) + BuilderOwners(p)

\* The builder has streamed the temp file p into the archive.
Streamed(p) ==
    \E j \in DOMAIN zipper : zipper[j].kind = "file" /\ zipper[j].entry.path = p

\* The three tasks of `process` have ended.
TasksEnded == loopPc = "done" /\ builderPc \in {"ok", "err"}

\* At every moment a temp file has at most one owner, and that owner is an
\* output or an entry until the file is streamed and the builder after;
\* the file of an embedded output that is being re-processed is owned by
\* that output; nothing is owned once the tasks have ended.
OneOwner ==
    /\ \A p \in TempFiles :
          /\ Owners(p) <= 1
          /\ (OutputOwners(p) + EntryOwners(p) = 1) => ~Streamed(p)
          /\ BuilderOwners(p) = 1 => Streamed(p)
    /\ \A w \in WorkerIds :
          workers[w].pc = "dispatch" => OutputOwners(workers[w].out.path) = 1
    /\ TasksEnded => \A p \in TempFiles : Owners(p) = 0

\* A temp file is unlinked, its owner dropped, only after the builder has
\* streamed it, unless the builder has failed.
UnlinkedAfterStreaming ==
    \A p \in TempFiles :
        (Owners(p) = 1 /\ Owners(p)' = 0) =>
            (Streamed(p)' \/ builderPc' = "err")

\* C31: the temp file behind an output's path has one owner at every
\* moment (the output, then the archive entry, then the builder); it is not
\* unlinked before the builder has streamed it into the archive nor, with
\* recurse, before the recursive processing that reads it has returned;
\* after that it is unlinked, when the run succeeds and when it fails.
C31_TempFileOwnedThenUnlinked ==
    []OneOwner /\ [][UnlinkedAfterStreaming]_vars

\* A recursive run has ended with an archive: the recursive processing of
\* an embedded file failed, its file was streamed all the same, and no
\* temp file is left.
C31_Witness ==
    /\ recurse
    /\ TasksEnded
    /\ builderPc = "ok"
    /\ \E o \in log.recFailed : Streamed(o.path)
    /\ Cardinality(TempFiles) >= 3

\* The file entries of a sequence of records that were made from output o.
EntriesFrom(records, o) ==
    { j \in DOMAIN records : /\ records[j].kind = "file"
                             /\ records[j].entry.out = o }

\* Every Ok output the loop received has one file record in the sequence,
\* and the sequence has no other file record.
OneEntryPerOutput(records) ==
    /\ \A o \in log.received : Cardinality(EntriesFrom(records, o)) = 1
    /\ Cardinality({ j \in DOMAIN records : records[j].kind = "file" })
          = Cardinality(log.received)

\* C36: absent archive I/O errors, every Ok output received by the output
\* loop results in exactly one entry in the final archive, the file that
\* build returns: none is lost and none is appended twice, for both
\* recurse settings and any interleaving of the workers.
C36_OneEntryPerReceivedOutput ==
    (builderPc = "ok" /\ fault = "none") =>
        OneEntryPerOutput(archive.entries)

\* C37: whenever a worker sends an archive entry the receiver of the
\* entries is still open, so the unwrap on the send never panics, also in
\* the runs in which ArchiveBuilder::new or an append returns an error.
C37_SendNeverPanics ==
    /\ panics = 0
    /\ \A w \in WorkerIds : workers[w].pc = "send" => arcRxOpen

\* An invocation of Processor::process, of the root or of a worker, has not
\* returned.
InvocationRunning ==
    \E i \in Invocations : disp[i].status \in {"start", "running"}

\* An Embedded output is in the channel, queued on the pool, or held by a
\* worker that has not made its entry yet.
EmbeddedUnhandled ==
    \/ \E j \in DOMAIN outputs : outputs[j].kind = "Embedded"
    \/ \E j \in DOMAIN poolQueue : poolQueue[j].kind = "Embedded"
    \/ \E w \in WorkerIds :
          workers[w].pc = "dispatch" /\ workers[w].out.kind = "Embedded"

\* A sub-processor is about to call add_output.
AboutToAddOutput ==
    \E i \in Invocations, k \in AllTypes :
        /\ disp[i].status = "running"
        /\ disp[i].tasks[k] >= 0
        /\ TaskOutcome(disp[i], k).act = "emit"

\* C38: while an invocation of the processor, of the root or recursive, is
\* running or an Embedded output is unhandled, the receiver of the output
\* channel is alive, so add_output never fails on a closed channel; the
\* output loop ends only after the root context and the sink clone of every
\* Embedded output have been dropped.
C38_ReceiverOutlivesSenders ==
    /\ (InvocationRunning \/ EmbeddedUnhandled) => outRxOpen
    /\ AboutToAddOutput => outRxOpen
    /\ loopPc \in {"joining", "done"} =>
          /\ outSenders = 0
          /\ ~InvocationRunning
          /\ ~EmbeddedUnhandled

\* The root invocation has returned and the channel is empty, yet the loop
\* still waits: a worker's recursive invocation holds a sink and is about
\* to add an output.
C38_Witness ==
    /\ disp[0].status = "ok"
    /\ outputs = <<>>
    /\ loopPc = "recv"
    /\ outRxOpen
    /\ \E w \in WorkerIds, k \in AllTypes :
          /\ disp[w].status = "running"
          /\ disp[w].tasks[k] >= 0
          /\ TaskOutcome(disp[w], k).act = "emit"

====
